---- MODULE Spec2Model ----
(***************************************************************************)
(* Text-patch protocol of slide-deck-pipeline: export of slide text to a   *)
(* patch record (text_export.py) and hash-guarded application of a patch   *)
(* record to a presentation (apply_text_edits.py), with the text           *)
(* normaliser, the structural slide signature and the box locator they     *)
(* rest on.                                                                *)
(*                                                                         *)
(* Representation.  A Python str is a sequence of one-character strings,   *)
(* so that strip/split/replace are computed character by character.  A     *)
(* character that has no literal here (a control character other than     *)
(* tab, line feed, form feed and carriage return; the grave accent; every  *)
(* character above U+007E) is written as the piece "U+" and its code point *)
(* in upper-case hexadecimal, at least four digits: "U+00A0", "U+212A".  A *)
(* sha256 digest is modelled as an injective function of its payload:      *)
(* the digest of payload p is the sequence <<"#">> \o p, and the empty     *)
(* string (a missing hash) is <<>>.  A bytes value is the sequence of the  *)
(* characters it encodes.                                                  *)
(***************************************************************************)
EXTENDS Integers, Sequences, FiniteSets, TLC

(***************************************************************************)
(* Python str primitives                                                   *)
(***************************************************************************)
TAB == "\t"
NL == "\n"
CR == "\r"
SP == " "

\* the characters c with c.isspace(): str.strip(), str.rstrip() and
\* str.split() without argument remove or separate on them
Whitespace ==
    {"\t", "\n", "U+000B", "\f", "\r", "U+001C", "U+001D", "U+001E",
     "U+001F", " ", "U+0085", "U+00A0",
     "U+1680", "U+2000", "U+2001", "U+2002", "U+2003", "U+2004", "U+2005",
     "U+2006", "U+2007", "U+2008", "U+2009", "U+200A", "U+2028", "U+2029",
     "U+202F", "U+205F", "U+3000"}

\* the whitespace int() removes around the number: str.isspace() without the
\* four separators U+001C..U+001F
IntWhitespace == Whitespace \ {"U+001C", "U+001D", "U+001E", "U+001F"}

\* the class 0-9 of a regular expression
AsciiDigits == {"0", "1", "2", "3", "4", "5", "6", "7", "8", "9"}

\* the characters c with c.isdecimal(), by int(c): DecimalDigits[v + 1] holds
\* the characters of value v
DecimalDigits ==
    <<{"0", "U+0660", "U+06F0", "U+07C0", "U+0966", "U+09E6", "U+0A66",
       "U+0AE6", "U+0B66", "U+0BE6", "U+0C66", "U+0CE6", "U+0D66", "U+0DE6",
       "U+0E50", "U+0ED0", "U+0F20", "U+1040", "U+1090", "U+17E0", "U+1810",
       "U+1946", "U+19D0", "U+1A80", "U+1A90", "U+1B50", "U+1BB0", "U+1C40",
       "U+1C50", "U+A620", "U+A8D0", "U+A900", "U+A9D0", "U+A9F0", "U+AA50",
       "U+ABF0", "U+FF10", "U+104A0", "U+10D30", "U+11066", "U+110F0",
       "U+11136", "U+111D0", "U+112F0", "U+11450", "U+114D0", "U+11650",
       "U+116C0", "U+11730", "U+118E0", "U+11950", "U+11C50", "U+11D50",
       "U+11DA0", "U+16A60", "U+16AC0", "U+16B50", "U+1D7CE", "U+1D7D8",
       "U+1D7E2", "U+1D7EC", "U+1D7F6", "U+1E140", "U+1E2F0", "U+1E950",
       "U+1FBF0"},
      {"1", "U+0661", "U+06F1", "U+07C1", "U+0967", "U+09E7", "U+0A67",
       "U+0AE7", "U+0B67", "U+0BE7", "U+0C67", "U+0CE7", "U+0D67", "U+0DE7",
       "U+0E51", "U+0ED1", "U+0F21", "U+1041", "U+1091", "U+17E1", "U+1811",
       "U+1947", "U+19D1", "U+1A81", "U+1A91", "U+1B51", "U+1BB1", "U+1C41",
       "U+1C51", "U+A621", "U+A8D1", "U+A901", "U+A9D1", "U+A9F1", "U+AA51",
       "U+ABF1", "U+FF11", "U+104A1", "U+10D31", "U+11067", "U+110F1",
       "U+11137", "U+111D1", "U+112F1", "U+11451", "U+114D1", "U+11651",
       "U+116C1", "U+11731", "U+118E1", "U+11951", "U+11C51", "U+11D51",
       "U+11DA1", "U+16A61", "U+16AC1", "U+16B51", "U+1D7CF", "U+1D7D9",
       "U+1D7E3", "U+1D7ED", "U+1D7F7", "U+1E141", "U+1E2F1", "U+1E951",
       "U+1FBF1"},
      {"2", "U+0662", "U+06F2", "U+07C2", "U+0968", "U+09E8", "U+0A68",
       "U+0AE8", "U+0B68", "U+0BE8", "U+0C68", "U+0CE8", "U+0D68", "U+0DE8",
       "U+0E52", "U+0ED2", "U+0F22", "U+1042", "U+1092", "U+17E2", "U+1812",
       "U+1948", "U+19D2", "U+1A82", "U+1A92", "U+1B52", "U+1BB2", "U+1C42",
       "U+1C52", "U+A622", "U+A8D2", "U+A902", "U+A9D2", "U+A9F2", "U+AA52",
       "U+ABF2", "U+FF12", "U+104A2", "U+10D32", "U+11068", "U+110F2",
       "U+11138", "U+111D2", "U+112F2", "U+11452", "U+114D2", "U+11652",
       "U+116C2", "U+11732", "U+118E2", "U+11952", "U+11C52", "U+11D52",
       "U+11DA2", "U+16A62", "U+16AC2", "U+16B52", "U+1D7D0", "U+1D7DA",
       "U+1D7E4", "U+1D7EE", "U+1D7F8", "U+1E142", "U+1E2F2", "U+1E952",
       "U+1FBF2"},
      {"3", "U+0663", "U+06F3", "U+07C3", "U+0969", "U+09E9", "U+0A69",
       "U+0AE9", "U+0B69", "U+0BE9", "U+0C69", "U+0CE9", "U+0D69", "U+0DE9",
       "U+0E53", "U+0ED3", "U+0F23", "U+1043", "U+1093", "U+17E3", "U+1813",
       "U+1949", "U+19D3", "U+1A83", "U+1A93", "U+1B53", "U+1BB3", "U+1C43",
       "U+1C53", "U+A623", "U+A8D3", "U+A903", "U+A9D3", "U+A9F3", "U+AA53",
       "U+ABF3", "U+FF13", "U+104A3", "U+10D33", "U+11069", "U+110F3",
       "U+11139", "U+111D3", "U+112F3", "U+11453", "U+114D3", "U+11653",
       "U+116C3", "U+11733", "U+118E3", "U+11953", "U+11C53", "U+11D53",
       "U+11DA3", "U+16A63", "U+16AC3", "U+16B53", "U+1D7D1", "U+1D7DB",
       "U+1D7E5", "U+1D7EF", "U+1D7F9", "U+1E143", "U+1E2F3", "U+1E953",
       "U+1FBF3"},
      {"4", "U+0664", "U+06F4", "U+07C4", "U+096A", "U+09EA", "U+0A6A",
       "U+0AEA", "U+0B6A", "U+0BEA", "U+0C6A", "U+0CEA", "U+0D6A", "U+0DEA",
       "U+0E54", "U+0ED4", "U+0F24", "U+1044", "U+1094", "U+17E4", "U+1814",
       "U+194A", "U+19D4", "U+1A84", "U+1A94", "U+1B54", "U+1BB4", "U+1C44",
       "U+1C54", "U+A624", "U+A8D4", "U+A904", "U+A9D4", "U+A9F4", "U+AA54",
       "U+ABF4", "U+FF14", "U+104A4", "U+10D34", "U+1106A", "U+110F4",
       "U+1113A", "U+111D4", "U+112F4", "U+11454", "U+114D4", "U+11654",
       "U+116C4", "U+11734", "U+118E4", "U+11954", "U+11C54", "U+11D54",
       "U+11DA4", "U+16A64", "U+16AC4", "U+16B54", "U+1D7D2", "U+1D7DC",
       "U+1D7E6", "U+1D7F0", "U+1D7FA", "U+1E144", "U+1E2F4", "U+1E954",
       "U+1FBF4"},
      {"5", "U+0665", "U+06F5", "U+07C5", "U+096B", "U+09EB", "U+0A6B",
       "U+0AEB", "U+0B6B", "U+0BEB", "U+0C6B", "U+0CEB", "U+0D6B", "U+0DEB",
       "U+0E55", "U+0ED5", "U+0F25", "U+1045", "U+1095", "U+17E5", "U+1815",
       "U+194B", "U+19D5", "U+1A85", "U+1A95", "U+1B55", "U+1BB5", "U+1C45",
       "U+1C55", "U+A625", "U+A8D5", "U+A905", "U+A9D5", "U+A9F5", "U+AA55",
       "U+ABF5", "U+FF15", "U+104A5", "U+10D35", "U+1106B", "U+110F5",
       "U+1113B", "U+111D5", "U+112F5", "U+11455", "U+114D5", "U+11655",
       "U+116C5", "U+11735", "U+118E5", "U+11955", "U+11C55", "U+11D55",
       "U+11DA5", "U+16A65", "U+16AC5", "U+16B55", "U+1D7D3", "U+1D7DD",
       "U+1D7E7", "U+1D7F1", "U+1D7FB", "U+1E145", "U+1E2F5", "U+1E955",
       "U+1FBF5"},
      {"6", "U+0666", "U+06F6", "U+07C6", "U+096C", "U+09EC", "U+0A6C",
       "U+0AEC", "U+0B6C", "U+0BEC", "U+0C6C", "U+0CEC", "U+0D6C", "U+0DEC",
       "U+0E56", "U+0ED6", "U+0F26", "U+1046", "U+1096", "U+17E6", "U+1816",
       "U+194C", "U+19D6", "U+1A86", "U+1A96", "U+1B56", "U+1BB6", "U+1C46",
       "U+1C56", "U+A626", "U+A8D6", "U+A906", "U+A9D6", "U+A9F6", "U+AA56",
       "U+ABF6", "U+FF16", "U+104A6", "U+10D36", "U+1106C", "U+110F6",
       "U+1113C", "U+111D6", "U+112F6", "U+11456", "U+114D6", "U+11656",
       "U+116C6", "U+11736", "U+118E6", "U+11956", "U+11C56", "U+11D56",
       "U+11DA6", "U+16A66", "U+16AC6", "U+16B56", "U+1D7D4", "U+1D7DE",
       "U+1D7E8", "U+1D7F2", "U+1D7FC", "U+1E146", "U+1E2F6", "U+1E956",
       "U+1FBF6"},
      {"7", "U+0667", "U+06F7", "U+07C7", "U+096D", "U+09ED", "U+0A6D",
       "U+0AED", "U+0B6D", "U+0BED", "U+0C6D", "U+0CED", "U+0D6D", "U+0DED",
       "U+0E57", "U+0ED7", "U+0F27", "U+1047", "U+1097", "U+17E7", "U+1817",
       "U+194D", "U+19D7", "U+1A87", "U+1A97", "U+1B57", "U+1BB7", "U+1C47",
       "U+1C57", "U+A627", "U+A8D7", "U+A907", "U+A9D7", "U+A9F7", "U+AA57",
       "U+ABF7", "U+FF17", "U+104A7", "U+10D37", "U+1106D", "U+110F7",
       "U+1113D", "U+111D7", "U+112F7", "U+11457", "U+114D7", "U+11657",
       "U+116C7", "U+11737", "U+118E7", "U+11957", "U+11C57", "U+11D57",
       "U+11DA7", "U+16A67", "U+16AC7", "U+16B57", "U+1D7D5", "U+1D7DF",
       "U+1D7E9", "U+1D7F3", "U+1D7FD", "U+1E147", "U+1E2F7", "U+1E957",
       "U+1FBF7"},
      {"8", "U+0668", "U+06F8", "U+07C8", "U+096E", "U+09EE", "U+0A6E",
       "U+0AEE", "U+0B6E", "U+0BEE", "U+0C6E", "U+0CEE", "U+0D6E", "U+0DEE",
       "U+0E58", "U+0ED8", "U+0F28", "U+1048", "U+1098", "U+17E8", "U+1818",
       "U+194E", "U+19D8", "U+1A88", "U+1A98", "U+1B58", "U+1BB8", "U+1C48",
       "U+1C58", "U+A628", "U+A8D8", "U+A908", "U+A9D8", "U+A9F8", "U+AA58",
       "U+ABF8", "U+FF18", "U+104A8", "U+10D38", "U+1106E", "U+110F8",
       "U+1113E", "U+111D8", "U+112F8", "U+11458", "U+114D8", "U+11658",
       "U+116C8", "U+11738", "U+118E8", "U+11958", "U+11C58", "U+11D58",
       "U+11DA8", "U+16A68", "U+16AC8", "U+16B58", "U+1D7D6", "U+1D7E0",
       "U+1D7EA", "U+1D7F4", "U+1D7FE", "U+1E148", "U+1E2F8", "U+1E958",
       "U+1FBF8"},
      {"9", "U+0669", "U+06F9", "U+07C9", "U+096F", "U+09EF", "U+0A6F",
       "U+0AEF", "U+0B6F", "U+0BEF", "U+0C6F", "U+0CEF", "U+0D6F", "U+0DEF",
       "U+0E59", "U+0ED9", "U+0F29", "U+1049", "U+1099", "U+17E9", "U+1819",
       "U+194F", "U+19D9", "U+1A89", "U+1A99", "U+1B59", "U+1BB9", "U+1C49",
       "U+1C59", "U+A629", "U+A8D9", "U+A909", "U+A9D9", "U+A9F9", "U+AA59",
       "U+ABF9", "U+FF19", "U+104A9", "U+10D39", "U+1106F", "U+110F9",
       "U+1113F", "U+111D9", "U+112F9", "U+11459", "U+114D9", "U+11659",
       "U+116C9", "U+11739", "U+118E9", "U+11959", "U+11C59", "U+11D59",
       "U+11DA9", "U+16A69", "U+16AC9", "U+16B59", "U+1D7D7", "U+1D7E1",
       "U+1D7EB", "U+1D7F5", "U+1D7FF", "U+1E149", "U+1E2F9", "U+1E959",
       "U+1FBF9"}>>

\* the characters c with c.isdigit() that int() does not take (superscripts,
\* circled digits, ...)
OtherDigits ==
    {"U+00B2", "U+00B3", "U+00B9", "U+1369", "U+136A", "U+136B", "U+136C",
     "U+136D", "U+136E", "U+136F", "U+1370", "U+1371", "U+19DA", "U+2070",
     "U+2074", "U+2075", "U+2076", "U+2077", "U+2078", "U+2079", "U+2080",
     "U+2081", "U+2082", "U+2083", "U+2084", "U+2085", "U+2086", "U+2087",
     "U+2088", "U+2089", "U+2460", "U+2461", "U+2462", "U+2463", "U+2464",
     "U+2465", "U+2466", "U+2467", "U+2468", "U+2474", "U+2475", "U+2476",
     "U+2477", "U+2478", "U+2479", "U+247A", "U+247B", "U+247C", "U+2488",
     "U+2489", "U+248A", "U+248B", "U+248C", "U+248D", "U+248E", "U+248F",
     "U+2490", "U+24EA", "U+24F5", "U+24F6", "U+24F7", "U+24F8", "U+24F9",
     "U+24FA", "U+24FB", "U+24FC", "U+24FD", "U+24FF", "U+2776", "U+2777",
     "U+2778", "U+2779", "U+277A", "U+277B", "U+277C", "U+277D", "U+277E",
     "U+2780", "U+2781", "U+2782", "U+2783", "U+2784", "U+2785", "U+2786",
     "U+2787", "U+2788", "U+278A", "U+278B", "U+278C", "U+278D", "U+278E",
     "U+278F", "U+2790", "U+2791", "U+2792", "U+10A40", "U+10A41", "U+10A42",
     "U+10A43", "U+10E60", "U+10E61", "U+10E62", "U+10E63", "U+10E64",
     "U+10E65", "U+10E66", "U+10E67", "U+10E68", "U+11052", "U+11053",
     "U+11054", "U+11055", "U+11056", "U+11057", "U+11058", "U+11059",
     "U+1105A", "U+1F100", "U+1F101", "U+1F102", "U+1F103", "U+1F104",
     "U+1F105", "U+1F106", "U+1F107", "U+1F108", "U+1F109", "U+1F10A"}

\* the characters c with c.isdecimal()
Decimals == UNION {DecimalDigits[i] : i \in 1..10}

\* the characters c with c.isdigit()
Digits == Decimals \cup OtherDigits

\* s[i:] and s[:i] of Python, 0-based cut position i
Drop(s, i) == SubSeq(s, i + 1, Len(s))
Take(s, i) == SubSeq(s, 1, i)

RECURSIVE Repeat(_, _)
\* c * n
Repeat(c, n) == IF n <= 0 THEN <<>> ELSE <<c>> \o Repeat(c, n - 1)

RECURSIVE LeadingCount(_, _)
\* number of leading characters of s that belong to cs
LeadingCount(s, cs) ==
    IF s = <<>> \/ Head(s) \notin cs THEN 0
    ELSE 1 + LeadingCount(Tail(s), cs)

RECURSIVE TrailingCount(_, _)
\* number of trailing characters of s that belong to cs
TrailingCount(s, cs) ==
    IF s = <<>> \/ s[Len(s)] \notin cs THEN 0
    ELSE 1 + TrailingCount(Take(s, Len(s) - 1), cs)

\* s.lstrip(cs), s.rstrip(cs), s.strip(cs)
LStrip(s, cs) == Drop(s, LeadingCount(s, cs))
RStrip(s, cs) == Take(s, Len(s) - TrailingCount(s, cs))
Strip(s, cs) == LStrip(RStrip(s, cs), cs)

RECURSIVE SplitOn(_, _)
\* s.split(sep) for a one-character separator: always at least one piece
SplitOn(s, sep) ==
    IF \A i \in 1..Len(s) : s[i] # sep THEN <<s>>
    ELSE LET k == CHOOSE i \in 1..Len(s) :
                      s[i] = sep /\ \A j \in 1..(i - 1) : s[j] # sep
         IN <<Take(s, k - 1)>> \o SplitOn(Drop(s, k), sep)

RECURSIVE JoinWith(_, _)
\* sep.join(parts) for a one-character separator
JoinWith(parts, sep) ==
    IF parts = <<>> THEN <<>>
    ELSE IF Len(parts) = 1 THEN parts[1]
    ELSE parts[1] \o <<sep>> \o JoinWith(Tail(parts), sep)

RECURSIVE Flatten(_)
\* concatenation of a sequence of sequences
Flatten(ss) == IF ss = <<>> THEN <<>> ELSE Head(ss) \o Flatten(Tail(ss))

RECURSIVE ReplaceLineEndings(_)
\* text.replace("\r\n", "\n").replace("\r", "\n")
ReplaceLineEndings(s) ==
    IF s = <<>> THEN <<>>
    ELSE IF Head(s) = CR /\ Len(s) >= 2 /\ s[2] = NL
         THEN <<NL>> \o ReplaceLineEndings(Drop(s, 2))
    ELSE IF Head(s) = CR THEN <<NL>> \o ReplaceLineEndings(Tail(s))
    ELSE <<Head(s)>> \o ReplaceLineEndings(Tail(s))

RECURSIVE SplitWords(_)
\* s.split(): the maximal runs of non-whitespace characters
SplitWords(s) ==
    LET t == LStrip(s, Whitespace)
        n == LeadingCount(t, {t[i] : i \in 1..Len(t)} \ Whitespace)
    IN IF t = <<>> THEN <<>>
       ELSE <<Take(t, n)>> \o SplitWords(Drop(t, n))

\* s.isdigit()
IsDigitStr(s) == s # <<>> /\ \A i \in 1..Len(s) : s[i] \in Digits

\* int(c) of a decimal digit
DigitValue(c) == (CHOOSE i \in 1..10 : c \in DecimalDigits[i]) - 1

RECURSIVE ParseDigits(_)
ParseDigits(s) ==
    IF s = <<>> THEN 0
    ELSE 10 * ParseDigits(Take(s, Len(s) - 1)) + DigitValue(s[Len(s)])

\* the value of a string of decimal digits, 0 for the empty string; leading
\* zeros add nothing to it
ParseInt(s) ==
    LET significant == {i \in 1..Len(s) : DigitValue(s[i]) # 0}
    IN IF significant = {} THEN 0
       ELSE ParseDigits(SubSeq(s, CHOOSE i \in significant :
                                     \A j \in significant : i <= j,
                               Len(s)))

\* int(s) for a str s: surrounding whitespace, an optional sign, decimal
\* digits with single underscores between them
IntDigits(s) ==
    LET t == Strip(s, IntWhitespace)
    IN IF t # <<>> /\ t[1] \in {"+", "-"} THEN Tail(t) ELSE t

\* sys.get_int_max_str_digits() of the interpreter: int() of a str with more
\* digits raises ValueError
INT_MAX_STR_DIGITS == 4300

\* int(s) does not raise ValueError
IntOk(s) ==
    LET d == IntDigits(s)
    IN /\ d # <<>>
       /\ d[1] \in Decimals
       /\ d[Len(d)] \in Decimals
       /\ \A i \in 1..Len(d) : d[i] \in Decimals \cup {"_"}
       /\ \A i \in 1..(Len(d) - 1) : ~(d[i] = "_" /\ d[i + 1] = "_")
       /\ Cardinality({i \in 1..Len(d) : d[i] # "_"}) <= INT_MAX_STR_DIGITS

\* the value of int(s) when it does not raise
IntValue(s) ==
    LET t == Strip(s, IntWhitespace)
        d == IntDigits(s)
        n == ParseInt(SelectSeq(d, LAMBDA c : c # "_"))
    IN IF t # <<>> /\ t[1] = "-" THEN 0 - n ELSE n

RECURSIVE NatRepr(_)
\* str(n) for n >= 0, character by character
NatRepr(n) ==
    IF n < 10 THEN <<ToString(n)>>
    ELSE NatRepr(n \div 10) \o <<ToString(n % 10)>>

\* str(n)
IntRepr(n) == IF n < 0 THEN <<"-">> \o NatRepr(0 - n) ELSE NatRepr(n)

(***************************************************************************)
(* repr() of str and tuple, sorted() of tuples of str                      *)
(***************************************************************************)
\* the ASCII characters in code point order: AsciiChars[n + 1] is chr(n)
AsciiChars ==
    <<"U+0000", "U+0001", "U+0002", "U+0003", "U+0004", "U+0005", "U+0006",
      "U+0007", "U+0008", "\t", "\n", "U+000B", "\f", "\r", "U+000E",
      "U+000F", "U+0010", "U+0011", "U+0012", "U+0013", "U+0014", "U+0015",
      "U+0016", "U+0017", "U+0018", "U+0019", "U+001A", "U+001B", "U+001C",
      "U+001D", "U+001E", "U+001F", " ", "!", "\"", "#", "$", "%", "&", "'",
      "(", ")", "*", "+", ",", "-", ".", "/", "0", "1", "2", "3", "4", "5",
      "6", "7", "8", "9", ":", ";", "<", "=", ">", "?", "@", "A", "B", "C",
      "D", "E", "F", "G", "H", "I", "J", "K", "L", "M", "N", "O", "P", "Q",
      "R", "S", "T", "U", "V", "W", "X", "Y", "Z", "[", "\\", "]", "^", "_",
      "U+0060", "a", "b", "c", "d", "e", "f", "g", "h", "i", "j", "k", "l",
      "m", "n", "o", "p", "q", "r", "s", "t", "u", "v", "w", "x", "y", "z",
      "{", "|", "}", "~", "U+007F">>

HexUpper == <<"0", "1", "2", "3", "4", "5", "6", "7", "8", "9",
              "A", "B", "C", "D", "E", "F">>
HexLower == <<"0", "1", "2", "3", "4", "5", "6", "7", "8", "9",
              "a", "b", "c", "d", "e", "f">>

RECURSIVE HexValue(_, _)
\* the number the first n characters of h write in hexadecimal
HexValue(h, n) ==
    IF n = 0 THEN 0
    ELSE 16 * HexValue(h, n - 1)
             + (CHOOSE v \in 0..15 : HexUpper[v + 1] = SubSeq(h, n, n))

\* the values of a sequence
Range(seq) == {seq[n] : n \in DOMAIN seq}

\* the first place of a sequence that holds c
IndexOf(seq, c) == CHOOSE n \in DOMAIN seq : seq[n] = c

AsciiSet == Range(AsciiChars)

\* ord(c) of the characters below U+0080
AsciiCodePoint ==
    [c \in AsciiSet |-> IndexOf(AsciiChars, c) - 1]

\* ord(c)
CodePoint(c) ==
    IF c \in AsciiSet THEN AsciiCodePoint[c]
    ELSE HexValue(SubSeq(c, 3, Len(c)), Len(c) - 2)

RECURSIVE HexSeq(_, _, _)
\* n in hexadecimal with the given digits, at least width of them, digit by
\* digit
HexSeq(n, width, digits) ==
    IF n < 16 /\ width <= 1 THEN <<digits[n + 1]>>
    ELSE Append(HexSeq(n \div 16, width - 1, digits), digits[(n % 16) + 1])

RECURSIVE Concat(_)
\* the pieces of a sequence of characters put together as one piece
Concat(pieces) ==
    IF pieces = <<>> THEN "" ELSE Head(pieces) \o Concat(Tail(pieces))

\* chr(n)
Chr(n) ==
    IF n < 128 THEN AsciiChars[n + 1]
    ELSE "U+" \o Concat(HexSeq(n, 4, HexUpper))

\* some range lo..hi of the table holds n; a table writes its ranges one
\* after the other: lo, hi, lo, hi, ...
InRanges(n, ranges) ==
    \E k \in 1..(Len(ranges) \div 2) :
        ranges[2 * k - 1] <= n /\ n <= ranges[2 * k]

\* the ranges lo..hi of the code points of the characters c with
\* c.isprintable() false
UnprintableRanges ==
    <<0, 31, 127, 160, 173, 173, 888, 889, 896, 899, 907, 907, 909, 909, 930,
      930, 1328, 1328, 1367, 1368, 1419, 1420, 1424, 1424, 1480, 1487, 1515,
      1518, 1525, 1541, 1564, 1564, 1757, 1757, 1806, 1807, 1867, 1868, 1970,
      1983, 2043, 2044, 2094, 2095, 2111, 2111, 2140, 2141, 2143, 2143, 2155,
      2159, 2191, 2199, 2274, 2274, 2436, 2436, 2445, 2446, 2449, 2450, 2473,
      2473, 2481, 2481, 2483, 2485, 2490, 2491, 2501, 2502, 2505, 2506, 2511,
      2518, 2520, 2523, 2526, 2526, 2532, 2533, 2559, 2560, 2564, 2564, 2571,
      2574, 2577, 2578, 2601, 2601, 2609, 2609, 2612, 2612, 2615, 2615, 2618,
      2619, 2621, 2621, 2627, 2630, 2633, 2634, 2638, 2640, 2642, 2648, 2653,
      2653, 2655, 2661, 2679, 2688, 2692, 2692, 2702, 2702, 2706, 2706, 2729,
      2729, 2737, 2737, 2740, 2740, 2746, 2747, 2758, 2758, 2762, 2762, 2766,
      2767, 2769, 2783, 2788, 2789, 2802, 2808, 2816, 2816, 2820, 2820, 2829,
      2830, 2833, 2834, 2857, 2857, 2865, 2865, 2868, 2868, 2874, 2875, 2885,
      2886, 2889, 2890, 2894, 2900, 2904, 2907, 2910, 2910, 2916, 2917, 2936,
      2945, 2948, 2948, 2955, 2957, 2961, 2961, 2966, 2968, 2971, 2971, 2973,
      2973, 2976, 2978, 2981, 2983, 2987, 2989, 3002, 3005, 3011, 3013, 3017,
      3017, 3022, 3023, 3025, 3030, 3032, 3045, 3067, 3071, 3085, 3085, 3089,
      3089, 3113, 3113, 3130, 3131, 3141, 3141, 3145, 3145, 3150, 3156, 3159,
      3159, 3163, 3164, 3166, 3167, 3172, 3173, 3184, 3190, 3213, 3213, 3217,
      3217, 3241, 3241, 3252, 3252, 3258, 3259, 3269, 3269, 3273, 3273, 3278,
      3284, 3287, 3292, 3295, 3295, 3300, 3301, 3312, 3312, 3315, 3327, 3341,
      3341, 3345, 3345, 3397, 3397, 3401, 3401, 3408, 3411, 3428, 3429, 3456,
      3456, 3460, 3460, 3479, 3481, 3506, 3506, 3516, 3516, 3518, 3519, 3527,
      3529, 3531, 3534, 3541, 3541, 3543, 3543, 3552, 3557, 3568, 3569, 3573,
      3584, 3643, 3646, 3676, 3712, 3715, 3715, 3717, 3717, 3723, 3723, 3748,
      3748, 3750, 3750, 3774, 3775, 3781, 3781, 3783, 3783, 3790, 3791, 3802,
      3803, 3808, 3839, 3912, 3912, 3949, 3952, 3992, 3992, 4029, 4029, 4045,
      4045, 4059, 4095, 4294, 4294, 4296, 4300, 4302, 4303, 4681, 4681, 4686,
      4687, 4695, 4695, 4697, 4697, 4702, 4703, 4745, 4745, 4750, 4751, 4785,
      4785, 4790, 4791, 4799, 4799, 4801, 4801, 4806, 4807, 4823, 4823, 4881,
      4881, 4886, 4887, 4955, 4956, 4989, 4991, 5018, 5023, 5110, 5111, 5118,
      5119, 5760, 5760, 5789, 5791, 5881, 5887, 5910, 5918, 5943, 5951, 5972,
      5983, 5997, 5997, 6001, 6001, 6004, 6015, 6110, 6111, 6122, 6127, 6138,
      6143, 6158, 6158, 6170, 6175, 6265, 6271, 6315, 6319, 6390, 6399, 6431,
      6431, 6444, 6447, 6460, 6463, 6465, 6467, 6510, 6511, 6517, 6527, 6572,
      6575, 6602, 6607, 6619, 6621, 6684, 6685, 6751, 6751, 6781, 6782, 6794,
      6799, 6810, 6815, 6830, 6831, 6863, 6911, 6989, 6991, 7039, 7039, 7156,
      7163, 7224, 7226, 7242, 7244, 7305, 7311, 7355, 7356, 7368, 7375, 7419,
      7423, 7958, 7959, 7966, 7967, 8006, 8007, 8014, 8015, 8024, 8024, 8026,
      8026, 8028, 8028, 8030, 8030, 8062, 8063, 8117, 8117, 8133, 8133, 8148,
      8149, 8156, 8156, 8176, 8177, 8181, 8181, 8191, 8207, 8232, 8239, 8287,
      8303, 8306, 8307, 8335, 8335, 8349, 8351, 8385, 8399, 8433, 8447, 8588,
      8591, 9255, 9279, 9291, 9311, 11124, 11125, 11158, 11158, 11508, 11512,
      11558, 11558, 11560, 11564, 11566, 11567, 11624, 11630, 11633, 11646,
      11671, 11679, 11687, 11687, 11695, 11695, 11703, 11703, 11711, 11711,
      11719, 11719, 11727, 11727, 11735, 11735, 11743, 11743, 11870, 11903,
      11930, 11930, 12020, 12031, 12246, 12271, 12284, 12288, 12352, 12352,
      12439, 12440, 12544, 12548, 12592, 12592, 12687, 12687, 12772, 12783,
      12831, 12831, 42125, 42127, 42183, 42191, 42540, 42559, 42744, 42751,
      42955, 42959, 42962, 42962, 42964, 42964, 42970, 42993, 43053, 43055,
      43066, 43071, 43128, 43135, 43206, 43213, 43226, 43231, 43348, 43358,
      43389, 43391, 43470, 43470, 43482, 43485, 43519, 43519, 43575, 43583,
      43598, 43599, 43610, 43611, 43715, 43738, 43767, 43776, 43783, 43784,
      43791, 43792, 43799, 43807, 43815, 43815, 43823, 43823, 43884, 43887,
      44014, 44015, 44026, 44031, 55204, 55215, 55239, 55242, 55292, 63743,
      64110, 64111, 64218, 64255, 64263, 64274, 64280, 64284, 64311, 64311,
      64317, 64317, 64319, 64319, 64322, 64322, 64325, 64325, 64451, 64466,
      64912, 64913, 64968, 64974, 64976, 65007, 65050, 65055, 65107, 65107,
      65127, 65127, 65132, 65135, 65141, 65141, 65277, 65280, 65471, 65473,
      65480, 65481, 65488, 65489, 65496, 65497, 65501, 65503, 65511, 65511,
      65519, 65531, 65534, 65535, 65548, 65548, 65575, 65575, 65595, 65595,
      65598, 65598, 65614, 65615, 65630, 65663, 65787, 65791, 65795, 65798,
      65844, 65846, 65935, 65935, 65949, 65951, 65953, 65999, 66046, 66175,
      66205, 66207, 66257, 66271, 66300, 66303, 66340, 66348, 66379, 66383,
      66427, 66431, 66462, 66462, 66500, 66503, 66518, 66559, 66718, 66719,
      66730, 66735, 66772, 66775, 66812, 66815, 66856, 66863, 66916, 66926,
      66939, 66939, 66955, 66955, 66963, 66963, 66966, 66966, 66978, 66978,
      66994, 66994, 67002, 67002, 67005, 67071, 67383, 67391, 67414, 67423,
      67432, 67455, 67462, 67462, 67505, 67505, 67515, 67583, 67590, 67591,
      67593, 67593, 67638, 67638, 67641, 67643, 67645, 67646, 67670, 67670,
      67743, 67750, 67760, 67807, 67827, 67827, 67830, 67834, 67868, 67870,
      67898, 67902, 67904, 67967, 68024, 68027, 68048, 68049, 68100, 68100,
      68103, 68107, 68116, 68116, 68120, 68120, 68150, 68151, 68155, 68158,
      68169, 68175, 68185, 68191, 68256, 68287, 68327, 68330, 68343, 68351,
      68406, 68408, 68438, 68439, 68467, 68471, 68498, 68504, 68509, 68520,
      68528, 68607, 68681, 68735, 68787, 68799, 68851, 68857, 68904, 68911,
      68922, 69215, 69247, 69247, 69290, 69290, 69294, 69295, 69298, 69375,
      69416, 69423, 69466, 69487, 69514, 69551, 69580, 69599, 69623, 69631,
      69710, 69713, 69750, 69758, 69821, 69821, 69827, 69839, 69865, 69871,
      69882, 69887, 69941, 69941, 69960, 69967, 70007, 70015, 70112, 70112,
      70133, 70143, 70162, 70162, 70207, 70271, 70279, 70279, 70281, 70281,
      70286, 70286, 70302, 70302, 70314, 70319, 70379, 70383, 70394, 70399,
      70404, 70404, 70413, 70414, 70417, 70418, 70441, 70441, 70449, 70449,
      70452, 70452, 70458, 70458, 70469, 70470, 70473, 70474, 70478, 70479,
      70481, 70486, 70488, 70492, 70500, 70501, 70509, 70511, 70517, 70655,
      70748, 70748, 70754, 70783, 70856, 70863, 70874, 71039, 71094, 71095,
      71134, 71167, 71237, 71247, 71258, 71263, 71277, 71295, 71354, 71359,
      71370, 71423, 71451, 71452, 71468, 71471, 71495, 71679, 71740, 71839,
      71923, 71934, 71943, 71944, 71946, 71947, 71956, 71956, 71959, 71959,
      71990, 71990, 71993, 71994, 72007, 72015, 72026, 72095, 72104, 72105,
      72152, 72153, 72165, 72191, 72264, 72271, 72355, 72367, 72441, 72703,
      72713, 72713, 72759, 72759, 72774, 72783, 72813, 72815, 72848, 72849,
      72872, 72872, 72887, 72959, 72967, 72967, 72970, 72970, 73015, 73017,
      73019, 73019, 73022, 73022, 73032, 73039, 73050, 73055, 73062, 73062,
      73065, 73065, 73103, 73103, 73106, 73106, 73113, 73119, 73130, 73439,
      73465, 73647, 73649, 73663, 73714, 73726, 74650, 74751, 74863, 74863,
      74869, 74879, 75076, 77711, 77811, 77823, 78895, 82943, 83527, 92159,
      92729, 92735, 92767, 92767, 92778, 92781, 92863, 92863, 92874, 92879,
      92910, 92911, 92918, 92927, 92998, 93007, 93018, 93018, 93026, 93026,
      93048, 93052, 93072, 93759, 93851, 93951, 94027, 94030, 94088, 94094,
      94112, 94175, 94181, 94191, 94194, 94207, 100344, 100351, 101590,
      101631, 101641, 110575, 110580, 110580, 110588, 110588, 110591, 110591,
      110883, 110927, 110931, 110947, 110952, 110959, 111356, 113663, 113771,
      113775, 113789, 113791, 113801, 113807, 113818, 113819, 113824, 118527,
      118574, 118575, 118599, 118607, 118724, 118783, 119030, 119039, 119079,
      119080, 119155, 119162, 119275, 119295, 119366, 119519, 119540, 119551,
      119639, 119647, 119673, 119807, 119893, 119893, 119965, 119965, 119968,
      119969, 119971, 119972, 119975, 119976, 119981, 119981, 119994, 119994,
      119996, 119996, 120004, 120004, 120070, 120070, 120075, 120076, 120085,
      120085, 120093, 120093, 120122, 120122, 120127, 120127, 120133, 120133,
      120135, 120137, 120145, 120145, 120486, 120487, 120780, 120781, 121484,
      121498, 121504, 121504, 121520, 122623, 122655, 122879, 122887, 122887,
      122905, 122906, 122914, 122914, 122917, 122917, 122923, 123135, 123181,
      123183, 123198, 123199, 123210, 123213, 123216, 123535, 123567, 123583,
      123642, 123646, 123648, 124895, 124903, 124903, 124908, 124908, 124911,
      124911, 124927, 124927, 125125, 125126, 125143, 125183, 125260, 125263,
      125274, 125277, 125280, 126064, 126133, 126208, 126270, 126463, 126468,
      126468, 126496, 126496, 126499, 126499, 126501, 126502, 126504, 126504,
      126515, 126515, 126520, 126520, 126522, 126522, 126524, 126529, 126531,
      126534, 126536, 126536, 126538, 126538, 126540, 126540, 126544, 126544,
      126547, 126547, 126549, 126550, 126552, 126552, 126554, 126554, 126556,
      126556, 126558, 126558, 126560, 126560, 126563, 126563, 126565, 126566,
      126571, 126571, 126579, 126579, 126584, 126584, 126589, 126589, 126591,
      126591, 126602, 126602, 126620, 126624, 126628, 126628, 126634, 126634,
      126652, 126703, 126706, 126975, 127020, 127023, 127124, 127135, 127151,
      127152, 127168, 127168, 127184, 127184, 127222, 127231, 127406, 127461,
      127491, 127503, 127548, 127551, 127561, 127567, 127570, 127583, 127590,
      127743, 128728, 128732, 128749, 128751, 128765, 128767, 128884, 128895,
      128985, 128991, 129004, 129007, 129009, 129023, 129036, 129039, 129096,
      129103, 129114, 129119, 129160, 129167, 129198, 129199, 129202, 129279,
      129620, 129631, 129646, 129647, 129653, 129655, 129661, 129663, 129671,
      129679, 129709, 129711, 129723, 129727, 129734, 129743, 129754, 129759,
      129768, 129775, 129783, 129791, 129939, 129939, 129995, 130031, 130042,
      131071, 173792, 173823, 177977, 177983, 178206, 178207, 183970, 183983,
      191457, 194559, 195102, 196607, 201547, 917759, 918000, 1114111>>

\* the characters below U+0080 that are not printable
AsciiUnprintable ==
    {c \in AsciiSet : InRanges(AsciiCodePoint[c], UnprintableRanges)}

\* c.isprintable()
IsPrintable(c) ==
    IF c \in AsciiSet THEN c \notin AsciiUnprintable
    ELSE ~InRanges(CodePoint(c), UnprintableRanges)

\* repr() of a character that is not printable: the escape sequence
ReprEscape(c) ==
    LET n == CodePoint(c)
    IN IF c = TAB THEN <<"\\", "t">>
       ELSE IF c = NL THEN <<"\\", "n">>
       ELSE IF c = CR THEN <<"\\", "r">>
       ELSE IF n < 256 THEN <<"\\", "x">> \o HexSeq(n, 2, HexLower)
       ELSE IF n < 65536 THEN <<"\\", "u">> \o HexSeq(n, 4, HexLower)
       ELSE <<"\\", "U">> \o HexSeq(n, 8, HexLower)

\* chr(n).lower() is chr(n + delta) for the code points n = lo, lo + step,
\* ... up to hi of a row lo, hi, step, delta, the rows written one after the
\* other; apart from the capital I with dot above and the capital sigma
\* every other character is its own lower case
LowerRuns ==
    <<65, 90, 1, 32, 192, 214, 1, 32, 216, 222, 1, 32, 256, 302, 2, 1, 306,
      310, 2, 1, 313, 327, 2, 1, 330, 374, 2, 1, 376, 376, 1, -121, 377, 381,
      2, 1, 385, 385, 1, 210, 386, 388, 2, 1, 390, 390, 1, 206, 391, 391, 1,
      1, 393, 394, 1, 205, 395, 395, 1, 1, 398, 398, 1, 79, 399, 399, 1, 202,
      400, 400, 1, 203, 401, 401, 1, 1, 403, 403, 1, 205, 404, 404, 1, 207,
      406, 406, 1, 211, 407, 407, 1, 209, 408, 408, 1, 1, 412, 412, 1, 211,
      413, 413, 1, 213, 415, 415, 1, 214, 416, 420, 2, 1, 422, 422, 1, 218,
      423, 423, 1, 1, 425, 425, 1, 218, 428, 428, 1, 1, 430, 430, 1, 218, 431,
      431, 1, 1, 433, 434, 1, 217, 435, 437, 2, 1, 439, 439, 1, 219, 440, 440,
      1, 1, 444, 444, 1, 1, 452, 452, 1, 2, 453, 453, 1, 1, 455, 455, 1, 2,
      456, 456, 1, 1, 458, 458, 1, 2, 459, 475, 2, 1, 478, 494, 2, 1, 497,
      497, 1, 2, 498, 500, 2, 1, 502, 502, 1, -97, 503, 503, 1, -56, 504, 542,
      2, 1, 544, 544, 1, -130, 546, 562, 2, 1, 570, 570, 1, 10795, 571, 571,
      1, 1, 573, 573, 1, -163, 574, 574, 1, 10792, 577, 577, 1, 1, 579, 579,
      1, -195, 580, 580, 1, 69, 581, 581, 1, 71, 582, 590, 2, 1, 880, 882, 2,
      1, 886, 886, 1, 1, 895, 895, 1, 116, 902, 902, 1, 38, 904, 906, 1, 37,
      908, 908, 1, 64, 910, 911, 1, 63, 913, 929, 1, 32, 932, 939, 1, 32, 975,
      975, 1, 8, 984, 1006, 2, 1, 1012, 1012, 1, -60, 1015, 1015, 1, 1, 1017,
      1017, 1, -7, 1018, 1018, 1, 1, 1021, 1023, 1, -130, 1024, 1039, 1, 80,
      1040, 1071, 1, 32, 1120, 1152, 2, 1, 1162, 1214, 2, 1, 1216, 1216, 1,
      15, 1217, 1229, 2, 1, 1232, 1326, 2, 1, 1329, 1366, 1, 48, 4256, 4293,
      1, 7264, 4295, 4295, 1, 7264, 4301, 4301, 1, 7264, 5024, 5103, 1, 38864,
      5104, 5109, 1, 8, 7312, 7354, 1, -3008, 7357, 7359, 1, -3008, 7680,
      7828, 2, 1, 7838, 7838, 1, -7615, 7840, 7934, 2, 1, 7944, 7951, 1, -8,
      7960, 7965, 1, -8, 7976, 7983, 1, -8, 7992, 7999, 1, -8, 8008, 8013, 1,
      -8, 8025, 8031, 2, -8, 8040, 8047, 1, -8, 8072, 8079, 1, -8, 8088, 8095,
      1, -8, 8104, 8111, 1, -8, 8120, 8121, 1, -8, 8122, 8123, 1, -74, 8124,
      8124, 1, -9, 8136, 8139, 1, -86, 8140, 8140, 1, -9, 8152, 8153, 1, -8,
      8154, 8155, 1, -100, 8168, 8169, 1, -8, 8170, 8171, 1, -112, 8172, 8172,
      1, -7, 8184, 8185, 1, -128, 8186, 8187, 1, -126, 8188, 8188, 1, -9,
      8486, 8486, 1, -7517, 8490, 8490, 1, -8383, 8491, 8491, 1, -8262, 8498,
      8498, 1, 28, 8544, 8559, 1, 16, 8579, 8579, 1, 1, 9398, 9423, 1, 26,
      11264, 11311, 1, 48, 11360, 11360, 1, 1, 11362, 11362, 1, -10743, 11363,
      11363, 1, -3814, 11364, 11364, 1, -10727, 11367, 11371, 2, 1, 11373,
      11373, 1, -10780, 11374, 11374, 1, -10749, 11375, 11375, 1, -10783,
      11376, 11376, 1, -10782, 11378, 11378, 1, 1, 11381, 11381, 1, 1, 11390,
      11391, 1, -10815, 11392, 11490, 2, 1, 11499, 11501, 2, 1, 11506, 11506,
      1, 1, 42560, 42604, 2, 1, 42624, 42650, 2, 1, 42786, 42798, 2, 1, 42802,
      42862, 2, 1, 42873, 42875, 2, 1, 42877, 42877, 1, -35332, 42878, 42886,
      2, 1, 42891, 42891, 1, 1, 42893, 42893, 1, -42280, 42896, 42898, 2, 1,
      42902, 42920, 2, 1, 42922, 42922, 1, -42308, 42923, 42923, 1, -42319,
      42924, 42924, 1, -42315, 42925, 42925, 1, -42305, 42926, 42926, 1,
      -42308, 42928, 42928, 1, -42258, 42929, 42929, 1, -42282, 42930, 42930,
      1, -42261, 42931, 42931, 1, 928, 42932, 42946, 2, 1, 42948, 42948, 1,
      -48, 42949, 42949, 1, -42307, 42950, 42950, 1, -35384, 42951, 42953, 2,
      1, 42960, 42960, 1, 1, 42966, 42968, 2, 1, 42997, 42997, 1, 1, 65313,
      65338, 1, 32, 66560, 66599, 1, 40, 66736, 66771, 1, 40, 66928, 66964, 2,
      39, 66929, 66937, 2, 39, 66941, 66953, 2, 39, 66957, 66961, 2, 39,
      66965, 66965, 1, 39, 68736, 68786, 1, 64, 71840, 71871, 1, 32, 93760,
      93791, 1, 32, 125184, 125217, 1, 34>>

\* the ranges lo..hi of the code points str.lower() passes over when it
\* looks for the cased letter before and after a capital sigma
CaseIgnorableRanges ==
    <<39, 39, 46, 46, 58, 58, 94, 94, 96, 96, 168, 168, 173, 173, 175, 175,
      180, 180, 183, 184, 688, 879, 884, 885, 890, 890, 900, 901, 903, 903,
      1155, 1161, 1369, 1369, 1375, 1375, 1425, 1469, 1471, 1471, 1473, 1474,
      1476, 1477, 1479, 1479, 1524, 1524, 1536, 1541, 1552, 1562, 1564, 1564,
      1600, 1600, 1611, 1631, 1648, 1648, 1750, 1757, 1759, 1768, 1770, 1773,
      1807, 1807, 1809, 1809, 1840, 1866, 1958, 1968, 2027, 2037, 2042, 2042,
      2045, 2045, 2070, 2093, 2137, 2139, 2184, 2184, 2192, 2193, 2200, 2207,
      2249, 2306, 2362, 2362, 2364, 2364, 2369, 2376, 2381, 2381, 2385, 2391,
      2402, 2403, 2417, 2417, 2433, 2433, 2492, 2492, 2497, 2500, 2509, 2509,
      2530, 2531, 2558, 2558, 2561, 2562, 2620, 2620, 2625, 2626, 2631, 2632,
      2635, 2637, 2641, 2641, 2672, 2673, 2677, 2677, 2689, 2690, 2748, 2748,
      2753, 2757, 2759, 2760, 2765, 2765, 2786, 2787, 2810, 2815, 2817, 2817,
      2876, 2876, 2879, 2879, 2881, 2884, 2893, 2893, 2901, 2902, 2914, 2915,
      2946, 2946, 3008, 3008, 3021, 3021, 3072, 3072, 3076, 3076, 3132, 3132,
      3134, 3136, 3142, 3144, 3146, 3149, 3157, 3158, 3170, 3171, 3201, 3201,
      3260, 3260, 3263, 3263, 3270, 3270, 3276, 3277, 3298, 3299, 3328, 3329,
      3387, 3388, 3393, 3396, 3405, 3405, 3426, 3427, 3457, 3457, 3530, 3530,
      3538, 3540, 3542, 3542, 3633, 3633, 3636, 3642, 3654, 3662, 3761, 3761,
      3764, 3772, 3782, 3782, 3784, 3789, 3864, 3865, 3893, 3893, 3895, 3895,
      3897, 3897, 3953, 3966, 3968, 3972, 3974, 3975, 3981, 3991, 3993, 4028,
      4038, 4038, 4141, 4144, 4146, 4151, 4153, 4154, 4157, 4158, 4184, 4185,
      4190, 4192, 4209, 4212, 4226, 4226, 4229, 4230, 4237, 4237, 4253, 4253,
      4348, 4348, 4957, 4959, 5906, 5908, 5938, 5939, 5970, 5971, 6002, 6003,
      6068, 6069, 6071, 6077, 6086, 6086, 6089, 6099, 6103, 6103, 6109, 6109,
      6155, 6159, 6211, 6211, 6277, 6278, 6313, 6313, 6432, 6434, 6439, 6440,
      6450, 6450, 6457, 6459, 6679, 6680, 6683, 6683, 6742, 6742, 6744, 6750,
      6752, 6752, 6754, 6754, 6757, 6764, 6771, 6780, 6783, 6783, 6823, 6823,
      6832, 6862, 6912, 6915, 6964, 6964, 6966, 6970, 6972, 6972, 6978, 6978,
      7019, 7027, 7040, 7041, 7074, 7077, 7080, 7081, 7083, 7085, 7142, 7142,
      7144, 7145, 7149, 7149, 7151, 7153, 7212, 7219, 7222, 7223, 7288, 7293,
      7376, 7378, 7380, 7392, 7394, 7400, 7405, 7405, 7412, 7412, 7416, 7417,
      7468, 7530, 7544, 7544, 7579, 7679, 8125, 8125, 8127, 8129, 8141, 8143,
      8157, 8159, 8173, 8175, 8189, 8190, 8203, 8207, 8216, 8217, 8228, 8228,
      8231, 8231, 8234, 8238, 8288, 8292, 8294, 8303, 8305, 8305, 8319, 8319,
      8336, 8348, 8400, 8432, 11388, 11389, 11503, 11505, 11631, 11631, 11647,
      11647, 11744, 11775, 11823, 11823, 12293, 12293, 12330, 12333, 12337,
      12341, 12347, 12347, 12441, 12446, 12540, 12542, 40981, 40981, 42232,
      42237, 42508, 42508, 42607, 42610, 42612, 42621, 42623, 42623, 42652,
      42655, 42736, 42737, 42752, 42785, 42864, 42864, 42888, 42890, 42994,
      42996, 43000, 43001, 43010, 43010, 43014, 43014, 43019, 43019, 43045,
      43046, 43052, 43052, 43204, 43205, 43232, 43249, 43263, 43263, 43302,
      43309, 43335, 43345, 43392, 43394, 43443, 43443, 43446, 43449, 43452,
      43453, 43471, 43471, 43493, 43494, 43561, 43566, 43569, 43570, 43573,
      43574, 43587, 43587, 43596, 43596, 43632, 43632, 43644, 43644, 43696,
      43696, 43698, 43700, 43703, 43704, 43710, 43711, 43713, 43713, 43741,
      43741, 43756, 43757, 43763, 43764, 43766, 43766, 43867, 43871, 43881,
      43883, 44005, 44005, 44008, 44008, 44013, 44013, 64286, 64286, 64434,
      64450, 65024, 65039, 65043, 65043, 65056, 65071, 65106, 65106, 65109,
      65109, 65279, 65279, 65287, 65287, 65294, 65294, 65306, 65306, 65342,
      65342, 65344, 65344, 65392, 65392, 65438, 65439, 65507, 65507, 65529,
      65531, 66045, 66045, 66272, 66272, 66422, 66426, 67456, 67461, 67463,
      67504, 67506, 67514, 68097, 68099, 68101, 68102, 68108, 68111, 68152,
      68154, 68159, 68159, 68325, 68326, 68900, 68903, 69291, 69292, 69446,
      69456, 69506, 69509, 69633, 69633, 69688, 69702, 69744, 69744, 69747,
      69748, 69759, 69761, 69811, 69814, 69817, 69818, 69821, 69821, 69826,
      69826, 69837, 69837, 69888, 69890, 69927, 69931, 69933, 69940, 70003,
      70003, 70016, 70017, 70070, 70078, 70089, 70092, 70095, 70095, 70191,
      70193, 70196, 70196, 70198, 70199, 70206, 70206, 70367, 70367, 70371,
      70378, 70400, 70401, 70459, 70460, 70464, 70464, 70502, 70508, 70512,
      70516, 70712, 70719, 70722, 70724, 70726, 70726, 70750, 70750, 70835,
      70840, 70842, 70842, 70847, 70848, 70850, 70851, 71090, 71093, 71100,
      71101, 71103, 71104, 71132, 71133, 71219, 71226, 71229, 71229, 71231,
      71232, 71339, 71339, 71341, 71341, 71344, 71349, 71351, 71351, 71453,
      71455, 71458, 71461, 71463, 71467, 71727, 71735, 71737, 71738, 71995,
      71996, 71998, 71998, 72003, 72003, 72148, 72151, 72154, 72155, 72160,
      72160, 72193, 72202, 72243, 72248, 72251, 72254, 72263, 72263, 72273,
      72278, 72281, 72283, 72330, 72342, 72344, 72345, 72752, 72758, 72760,
      72765, 72767, 72767, 72850, 72871, 72874, 72880, 72882, 72883, 72885,
      72886, 73009, 73014, 73018, 73018, 73020, 73021, 73023, 73029, 73031,
      73031, 73104, 73105, 73109, 73109, 73111, 73111, 73459, 73460, 78896,
      78904, 92912, 92916, 92976, 92982, 92992, 92995, 94031, 94031, 94095,
      94111, 94176, 94177, 94179, 94180, 110576, 110579, 110581, 110587,
      110589, 110590, 113821, 113822, 113824, 113827, 118528, 118573, 118576,
      118598, 119143, 119145, 119155, 119170, 119173, 119179, 119210, 119213,
      119362, 119364, 121344, 121398, 121403, 121452, 121461, 121461, 121476,
      121476, 121499, 121503, 121505, 121519, 122880, 122886, 122888, 122904,
      122907, 122913, 122915, 122916, 122918, 122922, 123184, 123197, 123566,
      123566, 123628, 123631, 125136, 125142, 125252, 125259, 127995, 127999,
      917505, 917505, 917536, 917631, 917760, 917999>>

\* the ranges lo..hi of the code points of the cased letters among the
\* other characters
CasedRanges ==
    <<65, 90, 97, 122, 170, 170, 181, 181, 186, 186, 192, 214, 216, 246, 248,
      442, 444, 447, 452, 659, 661, 687, 880, 883, 886, 887, 891, 893, 895,
      895, 902, 902, 904, 906, 908, 908, 910, 929, 931, 1013, 1015, 1153,
      1162, 1327, 1329, 1366, 1376, 1416, 4256, 4293, 4295, 4295, 4301, 4301,
      4304, 4346, 4349, 4351, 5024, 5109, 5112, 5117, 7296, 7304, 7312, 7354,
      7357, 7359, 7424, 7467, 7531, 7543, 7545, 7578, 7680, 7957, 7960, 7965,
      7968, 8005, 8008, 8013, 8016, 8023, 8025, 8025, 8027, 8027, 8029, 8029,
      8031, 8061, 8064, 8116, 8118, 8124, 8126, 8126, 8130, 8132, 8134, 8140,
      8144, 8147, 8150, 8155, 8160, 8172, 8178, 8180, 8182, 8188, 8450, 8450,
      8455, 8455, 8458, 8467, 8469, 8469, 8473, 8477, 8484, 8484, 8486, 8486,
      8488, 8488, 8490, 8493, 8495, 8500, 8505, 8505, 8508, 8511, 8517, 8521,
      8526, 8526, 8544, 8575, 8579, 8580, 9398, 9449, 11264, 11387, 11390,
      11492, 11499, 11502, 11506, 11507, 11520, 11557, 11559, 11559, 11565,
      11565, 42560, 42605, 42624, 42651, 42786, 42863, 42865, 42887, 42891,
      42894, 42896, 42954, 42960, 42961, 42963, 42963, 42965, 42969, 42997,
      42998, 43002, 43002, 43824, 43866, 43872, 43880, 43888, 43967, 64256,
      64262, 64275, 64279, 65313, 65338, 65345, 65370, 66560, 66639, 66736,
      66771, 66776, 66811, 66928, 66938, 66940, 66954, 66956, 66962, 66964,
      66965, 66967, 66977, 66979, 66993, 66995, 67001, 67003, 67004, 68736,
      68786, 68800, 68850, 71840, 71903, 93760, 93823, 119808, 119892, 119894,
      119964, 119966, 119967, 119970, 119970, 119973, 119974, 119977, 119980,
      119982, 119993, 119995, 119995, 119997, 120003, 120005, 120069, 120071,
      120074, 120077, 120084, 120086, 120092, 120094, 120121, 120123, 120126,
      120128, 120132, 120134, 120134, 120138, 120144, 120146, 120485, 120488,
      120512, 120514, 120538, 120540, 120570, 120572, 120596, 120598, 120628,
      120630, 120654, 120656, 120686, 120688, 120712, 120714, 120744, 120746,
      120770, 120772, 120779, 122624, 122633, 122635, 122654, 125184, 125251,
      127280, 127305, 127312, 127337, 127344, 127369>>

\* ord(chr(n).lower()) by the rows of a table, for a character with a lower
\* case of one character that does not depend on its neighbours
LowerBy(n, runs) ==
    LET holds(k) == /\ runs[4 * k - 3] <= n /\ n <= runs[4 * k - 2]
                    /\ (n - runs[4 * k - 3]) % runs[4 * k - 1] = 0
    IN IF \E k \in 1..(Len(runs) \div 4) : holds(k)
       THEN n + runs[4 * (CHOOSE k \in 1..(Len(runs) \div 4) : holds(k))]
       ELSE n

LowerOf(n) == LowerBy(n, LowerRuns)

\* the character is not one that is passed over
Stands(c) == ~InRanges(CodePoint(c), CaseIgnorableRanges)

\* the character is a cased letter
IsCased(c) == InRanges(CodePoint(c), CasedRanges)

\* the last of the places before holds a cased letter
CasedBefore(s, before) ==
    /\ before # {}
    /\ IsCased(s[CHOOSE j \in before : \A k \in before : k <= j])

\* the first of the places after holds a cased letter
CasedAfter(s, after) ==
    /\ after # {}
    /\ IsCased(s[CHOOSE j \in after : \A k \in after : j <= k])

\* the capital sigma at s[i] ends a word: a cased letter stands before it
\* and none after it, characters that are passed over left aside
FinalSigma(s, i) ==
    /\ CasedBefore(s, {j \in 1..(i - 1) : Stands(s[j])})
    /\ ~CasedAfter(s, {j \in (i + 1)..Len(s) : Stands(s[j])})

\* c.lower() of the characters below U+0080
AsciiLower == [c \in AsciiSet |-> Chr(LowerOf(AsciiCodePoint[c]))]

\* s.lower()
Lower(s) ==
    Flatten([i \in 1..Len(s) |->
        IF s[i] \in AsciiSet THEN <<AsciiLower[s[i]]>>
        ELSE IF s[i] = "U+0130" THEN <<"i", "U+0307">>
        ELSE IF s[i] = "U+03A3"
        THEN <<IF FinalSigma(s, i) THEN "U+03C2" ELSE "U+03C3">>
        ELSE <<Chr(LowerOf(CodePoint(s[i])))>>])

RECURSIVE JoinStr(_, _)
\* sep.join(parts) for a separator of any length
JoinStr(parts, sep) ==
    IF parts = <<>> THEN <<>>
    ELSE IF Len(parts) = 1 THEN parts[1]
    ELSE parts[1] \o sep \o JoinStr(Tail(parts), sep)

\* repr() of a str: the quotation mark is the apostrophe unless the string
\* holds an apostrophe and no double quote; the backslash, the quotation
\* mark in use and every unprintable character are escaped
StrRepr(s) ==
    LET has(c) == \E i \in 1..Len(s) : s[i] = c
        quote == IF has("'") /\ ~has("\"") THEN "\"" ELSE "'"
        piece(c) == IF c = "\\" THEN <<"\\", "\\">>
                    ELSE IF c = quote THEN <<"\\", c>>
                    ELSE IF ~IsPrintable(c) THEN ReprEscape(c)
                    ELSE <<c>>
    IN <<quote>> \o Flatten([i \in 1..Len(s) |-> piece(s[i])]) \o <<quote>>

\* repr() of a tuple, given the repr() of its items: a tuple of one item
\* ends with a comma
TupleRepr(items) ==
    <<"(">> \o JoinStr(items, <<",", SP>>)
            \o (IF Len(items) = 1 THEN <<",">> ELSE <<>>) \o <<")">>

RECURSIVE StrLess(_, _)
\* a < b for two str
StrLess(a, b) ==
    IF b = <<>> THEN FALSE
    ELSE IF a = <<>> THEN TRUE
    ELSE IF a[1] = b[1] THEN StrLess(Tail(a), Tail(b))
    ELSE CodePoint(a[1]) < CodePoint(b[1])

\* a < b for two tuples (str, str)
PairLess(a, b) ==
    \/ StrLess(a[1], b[1])
    \/ a[1] = b[1] /\ StrLess(a[2], b[2])

RECURSIVE SortedPairs(_)
\* sorted() of a collection of distinct tuples (str, str)
SortedPairs(pairs) ==
    IF pairs = {} THEN <<>>
    ELSE LET least == CHOOSE a \in pairs :
                          \A b \in pairs \ {a} : PairLess(a, b)
         IN <<least>> \o SortedPairs(pairs \ {least})

\* a string literal of the source, character by character
Chars(word) == [i \in 1..Len(word) |-> SubSeq(word, i, i)]

(***************************************************************************)
(* csv_schema.py: text normaliser and digests                              *)
(***************************************************************************)
\* hashlib.sha256(payload).hexdigest()[:16], as an injective digest
Sha256Hex16(payload) == <<"#">> \o payload

\* normalize_line without the leading-tab prefix
normalize_line_without_tabs(raw_line) ==
    LET line == RStrip(raw_line, Whitespace)
        content == JoinWith(SplitWords(Strip(LStrip(line, {TAB}), Whitespace)), SP)
    IN IF Strip(line, Whitespace) = <<>> THEN <<>>
       ELSE <<content>>

\* one line of normalize_text's loop: <<>> when the line is dropped,
\* <<line_out>> when it is kept
normalize_line(raw_line) ==
    LET line == RStrip(raw_line, Whitespace)
        leading_tabs == LeadingCount(line, {TAB})
        content == JoinWith(SplitWords(Strip(LStrip(line, {TAB}), Whitespace)), SP)
    IN IF Strip(line, Whitespace) = <<>> THEN <<>>
       ELSE <<Repeat(TAB, leading_tabs) \o content>>

normalize_text(text) ==
    IF text = <<>> THEN <<>>
    ELSE LET raw == SplitOn(ReplaceLineEndings(text), NL)
             kept == Flatten([i \in 1..Len(raw) |-> normalize_line(raw[i])])
         IN JoinWith(kept, NL)

compute_text_hash(text) == Sha256Hex16(normalize_text(text))

\* An XML document is the byte string <<"<?xml", root>>, root an element
\* [tag, attrib, text, children, tail] with attrib a set of <<key, value>>;
\* every other byte string is not well-formed XML.
Element(tag, attrib, text, children, tail) ==
    [tag |-> tag, attrib |-> attrib, text |-> text, children |-> children,
     tail |-> tail]

XmlBytes(root) == <<"<?xml", root>>

\* xml_et.fromstring(slide_xml) does not raise XMLSyntaxError
IsXml(slide_xml) == Len(slide_xml) = 2 /\ slide_xml[1] = "<?xml"

should_ignore_attr(attr_key) ==
    LET parts == SplitOn(attr_key, "}")
        local_name == parts[Len(parts)]
    IN local_name \in {<<"i", "d">>, <<"n", "a", "m", "e">>}

\* rel_hashes None or {}: a dict is a function from its keys
NoRelHashes == <<>>

RECURSIVE build_xml_signature(_, _)
\* the signature tuple of an element, as a record of its five items; an
\* attribute whose value is a key of rel_hashes is kept with the content
\* hash as value
build_xml_signature(element, rel_hashes) ==
    [tag |-> element.tag,
     attrs |-> SortedPairs(
                   {IF a[2] \in DOMAIN rel_hashes
                    THEN <<a[1], rel_hashes[a[2]]>> ELSE a :
                       a \in {b \in element.attrib :
                                 \/ b[2] \in DOMAIN rel_hashes
                                 \/ ~should_ignore_attr(b[1])}}),
     text |-> Strip(element.text, Whitespace),
     children |-> [i \in 1..Len(element.children) |->
                      build_xml_signature(element.children[i], rel_hashes)],
     tail |-> Strip(element.tail, Whitespace)]

RECURSIVE SignatureRepr(_)
\* repr(signature) of the tuple (tag, attrs, text, children, tail)
SignatureRepr(signature) ==
    TupleRepr(<<StrRepr(signature.tag),
                TupleRepr([i \in 1..Len(signature.attrs) |->
                              TupleRepr(<<StrRepr(signature.attrs[i][1]),
                                          StrRepr(signature.attrs[i][2])>>)]),
                StrRepr(signature.text),
                TupleRepr([i \in 1..Len(signature.children) |->
                              SignatureRepr(signature.children[i])]),
                StrRepr(signature.tail)>>)

\* repr(signature) of the parsed document, the bytes as they are when they
\* do not parse
normalize_slide_xml(slide_xml, rel_hashes) ==
    IF IsXml(slide_xml)
    THEN SignatureRepr(build_xml_signature(slide_xml[2], rel_hashes))
    ELSE slide_xml

\* b"\n--rels--\n" and b"\n--notes--\n"
RelsSeparator == <<NL, "-", "-", "r", "e", "l", "s", "-", "-", NL>>
NotesSeparator == <<NL, "-", "-", "n", "o", "t", "e", "s", "-", "-", NL>>

\* csv_schema.compute_slide_hash; rel_tokens is the list of tuples
\* (type, content hash) as it is passed
compute_slide_hash(slide_xml, notes_text, rel_hashes, rel_tokens) ==
    LET normalized_notes == normalize_text(notes_text)
    IN Sha256Hex16(normalize_slide_xml(slide_xml, rel_hashes) \o
           (IF rel_tokens # <<>>
            THEN RelsSeparator \o
                 TupleRepr([i \in 1..Len(rel_tokens) |->
                               TupleRepr(<<StrRepr(rel_tokens[i][1]),
                                           StrRepr(rel_tokens[i][2])>>)])
            ELSE <<>>) \o
           (IF normalized_notes # <<>>
            THEN NotesSeparator \o normalized_notes ELSE <<>>))

(***************************************************************************)
(* Document object model (python-pptx), as far as the pipeline reads and   *)
(* writes it.                                                              *)
(*   paragraph  [text, level]                                              *)
(*   shape      [shape_id, name, shape_type, is_placeholder, ph_type,      *)
(*               has_text_frame, paragraphs, has_table, table_cells,       *)
(*               has_chart, chart_title, geom, blob, shapes]               *)
(*   notes      [state, text]: state "absent" (no notes slide), "noframe"  *)
(*               (notes slide without a notes placeholder) or "frame"      *)
(*   slide      [shapes, notes]                                            *)
(* A text frame always has at least one paragraph.                         *)
(***************************************************************************)
Para(text, level) == [text |-> text, level |-> level]

EmptyFrame == <<Para(<<>>, 0)>>

NoNotes == [state |-> "absent", text |-> <<>>]
NotesWithoutFrame == [state |-> "noframe", text |-> <<>>]
NotesFrame(text) == [state |-> "frame", text |-> text]

BaseShape(id, name, type, geom) ==
    [shape_id |-> id, name |-> name, shape_type |-> type,
     is_placeholder |-> FALSE, ph_type |-> "NONE",
     has_text_frame |-> FALSE, paragraphs |-> <<>>,
     has_table |-> FALSE, table_cells |-> <<>>,
     has_chart |-> FALSE, chart_title |-> <<>>,
     geom |-> geom, blob |-> <<>>, shapes |-> <<>>]

PlaceholderShape(id, name, ph_type, geom, paragraphs) ==
    [BaseShape(id, name, "PLACEHOLDER", geom) EXCEPT
        !.is_placeholder = TRUE, !.ph_type = ph_type,
        !.has_text_frame = TRUE, !.paragraphs = paragraphs]

TextBoxShape(id, name, geom, paragraphs) ==
    [BaseShape(id, name, "TEXT_BOX", geom) EXCEPT
        !.has_text_frame = TRUE, !.paragraphs = paragraphs]

PictureShape(id, name, geom, blob) ==
    [BaseShape(id, name, "PICTURE", geom) EXCEPT !.blob = blob]

GroupShape(id, name, geom, shapes) ==
    [BaseShape(id, name, "GROUP", geom) EXCEPT !.shapes = shapes]

(***************************************************************************)
(* pptx_text.py                                                            *)
(***************************************************************************)
\* one paragraph of extract_paragraph_lines: <<>> when skipped
paragraph_line(paragraph) ==
    LET text == Strip(paragraph.text, Whitespace)
    IN IF text = <<>> THEN <<>>
       ELSE <<Repeat(TAB, paragraph.level) \o text>>

extract_paragraph_lines(text_frame) ==
    Flatten([i \in 1..Len(text_frame) |-> paragraph_line(text_frame[i])])

extract_table_text(table_cells) ==
    Flatten([i \in 1..Len(table_cells) |->
                extract_paragraph_lines(table_cells[i])])

\* chart_title is <<>> when the chart has no title text frame
extract_chart_title_text(shape) ==
    IF shape.chart_title = <<>> THEN <<>>
    ELSE extract_paragraph_lines(shape.chart_title)

RECURSIVE extract_shape_text(_)
extract_shape_text(shape) ==
    IF shape.shape_type = "GROUP"
    THEN Flatten([i \in 1..Len(shape.shapes) |->
                     extract_shape_text(shape.shapes[i])])
    ELSE (IF shape.has_text_frame
          THEN extract_paragraph_lines(shape.paragraphs) ELSE <<>>)
         \o (IF shape.has_table
             THEN extract_table_text(shape.table_cells) ELSE <<>>)
         \o (IF shape.has_chart
             THEN extract_chart_title_text(shape) ELSE <<>>)

extract_notes_text(slide) ==
    IF slide.notes.state = "absent" THEN <<>>
    ELSE IF slide.notes.state = "noframe" THEN <<>>
    ELSE slide.notes.text

(***************************************************************************)
(* layout_classifier.py, pptx_hash.py: the structural slide signature      *)
(***************************************************************************)
BodyPlaceholderTypes == {"BODY", "OBJECT", "CONTENT", "TEXT"}

classify_placeholder_role(placeholder_type) ==
    IF placeholder_type \in {"TITLE", "CENTER_TITLE"} THEN "title"
    ELSE IF placeholder_type = "SUBTITLE" THEN "subtitle"
    ELSE IF placeholder_type \in BodyPlaceholderTypes THEN "body"
    ELSE ""

shape_type_name(shape) == shape.shape_type

shape_geometry(shape) == shape.geom

placeholder_role(shape) ==
    IF ~shape.is_placeholder THEN ""
    ELSE classify_placeholder_role(shape.ph_type)

hash_bytes(payload) == Sha256Hex16(payload)

hash_image_blob(shape) ==
    IF shape.shape_type # "PICTURE" THEN <<>>
    ELSE IF shape.blob = <<>> THEN <<>>
    ELSE hash_bytes(shape.blob)

\* hash_shape_text reading the text frame only
hash_shape_text_frame_only(shape) ==
    LET lines == IF shape.has_text_frame
                 THEN extract_paragraph_lines(shape.paragraphs) ELSE <<>>
    IN IF lines = <<>> THEN <<>>
       ELSE compute_text_hash(JoinWith(lines, NL))

hash_shape_text(shape) ==
    LET lines == extract_shape_text(shape)
    IN IF lines = <<>> THEN <<>>
       ELSE compute_text_hash(JoinWith(lines, NL))

shape_kind(shape) ==
    IF shape.shape_type = "GROUP" THEN "group"
    ELSE IF shape.shape_type = "PICTURE" THEN "picture"
    ELSE IF shape.has_table THEN "table"
    ELSE IF shape.has_chart THEN "chart"
    ELSE IF shape.is_placeholder THEN "placeholder"
    ELSE IF shape.has_text_frame THEN "textbox"
    ELSE "shape"

\* repr() of a geometry tuple
GeomRepr(geom) ==
    TupleRepr(<<IntRepr(geom[1]), IntRepr(geom[2]), IntRepr(geom[3]),
                IntRepr(geom[4])>>)

RECURSIVE build_shape_tokens(_)
\* the tokens appended for one shape, each token already in repr() form
build_shape_tokens(shape) ==
    LET kind == shape_kind(shape)
        geom == shape_geometry(shape)
    IN IF kind = "group"
       THEN <<TupleRepr(<<StrRepr(Chars("group_start")), GeomRepr(geom),
                          StrRepr(Chars(shape_type_name(shape)))>>)>>
            \o Flatten([i \in 1..Len(shape.shapes) |->
                           build_shape_tokens(shape.shapes[i])])
            \o <<TupleRepr(<<StrRepr(Chars("group_end"))>>)>>
       ELSE <<TupleRepr(<<StrRepr(Chars("shape")), StrRepr(Chars(kind)),
                          StrRepr(Chars(placeholder_role(shape))),
                          GeomRepr(geom),
                          StrRepr(hash_shape_text(shape)),
                          StrRepr(hash_image_blob(shape)),
                          StrRepr(Chars(shape_type_name(shape)))>>)>>

\* the slide hash of compute_slide_hash_from_slide
compute_slide_hash_from_slide(slide, notes_text) ==
    LET tokens == Flatten([i \in 1..Len(slide.shapes) |->
                              build_shape_tokens(slide.shapes[i])])
        payload == TupleRepr(tokens)
    IN compute_slide_hash(payload, notes_text, NoRelHashes, <<>>)

(***************************************************************************)
(* text_boxes.py: the addressable box locator                              *)
(***************************************************************************)
UpperCase == <<"A", "B", "C", "D", "E", "F", "G", "H", "I", "J", "K", "L", "M",
               "N", "O", "P", "Q", "R", "S", "T", "U", "V", "W", "X", "Y", "Z">>
LowerCase == <<"a", "b", "c", "d", "e", "f", "g", "h", "i", "j", "k", "l", "m",
               "n", "o", "p", "q", "r", "s", "t", "u", "v", "w", "x", "y", "z">>

\* c.lower() == x for an ASCII lower-case letter x: c is x, its capital, or
\* the Kelvin sign for k; no other character has an ASCII lower case
LowersTo(c, x) ==
    \/ c = x
    \/ \E i \in 1..26 : UpperCase[i] = c /\ LowerCase[i] = x
    \/ c = "U+212A" /\ x = "k"

\* s.lower() == w for a word w of ASCII lower-case letters
LowerEquals(s, w) ==
    /\ Len(s) = Len(w)
    /\ \A i \in 1..Len(w) : LowersTo(s[i], w[i])

\* the class a-z0-9 of the regular expression
NameChars == {LowerCase[i] : i \in 1..26} \cup AsciiDigits

\* re.sub(r"[^a-z0-9]", "_", c.lower()) for one character c: the capital I
\* with dot above lowers to i and a combining dot, every character other
\* than A-Z, a-z, 0-9, the Kelvin sign and that I to characters outside the
\* class
LowerNameChar(c) ==
    IF c \in NameChars THEN <<c>>
    ELSE IF \E x \in NameChars : LowersTo(c, x)
         THEN <<CHOOSE x \in NameChars : LowersTo(c, x)>>
    ELSE IF c = "U+0130" THEN <<"i", "_">>
    ELSE <<"_">>

RECURSIVE CollapseNonName(_)
\* re.sub(r"[^a-z0-9]+", "_", s)
CollapseNonName(s) ==
    IF s = <<>> THEN <<>>
    ELSE IF Head(s) \in NameChars THEN <<Head(s)>> \o CollapseNonName(Tail(s))
    ELSE <<"_">> \o CollapseNonName(Drop(s, LeadingCount(s, {s[i] : i \in 1..Len(s)} \ NameChars)))

normalize_shape_name(name) ==
    IF name = <<>> THEN <<>>
    ELSE LET stripped == Strip(name, Whitespace)
             cleaned == Flatten([i \in 1..Len(stripped) |->
                                    LowerNameChar(stripped[i])])
         IN Strip(CollapseNonName(cleaned), {"_"})

is_body_placeholder(placeholder_type) ==
    placeholder_type \in BodyPlaceholderTypes

\* the member names of PP_PLACEHOLDER
PlaceholderTypes ==
    {"BITMAP", "BODY", "CENTER_TITLE", "CHART", "DATE", "FOOTER", "HEADER",
     "MEDIA_CLIP", "OBJECT", "ORG_CHART", "PICTURE", "SLIDE_IMAGE",
     "SLIDE_NUMBER", "SUBTITLE", "TABLE", "TITLE", "VERTICAL_BODY",
     "VERTICAL_OBJECT", "VERTICAL_TITLE", "MIXED"}

\* name.lower() of a member of PP_PLACEHOLDER, character by character
LowerMemberName(member) ==
    CASE member = "BITMAP" -> <<"b", "i", "t", "m", "a", "p">>
      [] member = "BODY" -> <<"b", "o", "d", "y">>
      [] member = "CENTER_TITLE" ->
            <<"c", "e", "n", "t", "e", "r", "_", "t", "i", "t", "l", "e">>
      [] member = "CHART" -> <<"c", "h", "a", "r", "t">>
      [] member = "DATE" -> <<"d", "a", "t", "e">>
      [] member = "FOOTER" -> <<"f", "o", "o", "t", "e", "r">>
      [] member = "HEADER" -> <<"h", "e", "a", "d", "e", "r">>
      [] member = "MEDIA_CLIP" ->
            <<"m", "e", "d", "i", "a", "_", "c", "l", "i", "p">>
      [] member = "OBJECT" -> <<"o", "b", "j", "e", "c", "t">>
      [] member = "ORG_CHART" ->
            <<"o", "r", "g", "_", "c", "h", "a", "r", "t">>
      [] member = "PICTURE" -> <<"p", "i", "c", "t", "u", "r", "e">>
      [] member = "SLIDE_IMAGE" ->
            <<"s", "l", "i", "d", "e", "_", "i", "m", "a", "g", "e">>
      [] member = "SLIDE_NUMBER" ->
            <<"s", "l", "i", "d", "e", "_", "n", "u", "m", "b", "e", "r">>
      [] member = "SUBTITLE" -> <<"s", "u", "b", "t", "i", "t", "l", "e">>
      [] member = "TABLE" -> <<"t", "a", "b", "l", "e">>
      [] member = "TITLE" -> <<"t", "i", "t", "l", "e">>
      [] member = "VERTICAL_BODY" ->
            <<"v", "e", "r", "t", "i", "c", "a", "l", "_", "b", "o", "d", "y">>
      [] member = "VERTICAL_OBJECT" ->
            <<"v", "e", "r", "t", "i", "c", "a", "l", "_",
              "o", "b", "j", "e", "c", "t">>
      [] member = "VERTICAL_TITLE" ->
            <<"v", "e", "r", "t", "i", "c", "a", "l", "_",
              "t", "i", "t", "l", "e">>
      [] member = "MIXED" -> <<"m", "i", "x", "e", "d">>

\* "" for no placeholder type, the lower-case member name otherwise
placeholder_type_name(placeholder_type) ==
    IF placeholder_type = "NONE" THEN <<>>
    ELSE LowerMemberName(placeholder_type)

extract_text_block(shape) ==
    IF ~shape.has_text_frame THEN <<>>
    ELSE JoinWith(extract_paragraph_lines(shape.paragraphs), NL)

RECURSIVE NextFreeSuffix(_, _, _)
\* the while loop of ensure_unique_id, started at counter
NextFreeSuffix(box_id, used, counter) ==
    LET candidate == box_id \o <<"_">> \o IntRepr(counter)
    IN IF candidate \notin used THEN candidate
       ELSE NextFreeSuffix(box_id, used, counter + 1)

\* the id returned by ensure_unique_id; the caller adds it to used
ensure_unique_id(box_id, used) ==
    IF box_id \notin used THEN box_id
    ELSE NextFreeSuffix(box_id, used, 2)

\* box ids as character sequences
Str_title == <<"t", "i", "t", "l", "e">>
Str_subtitle == <<"s", "u", "b">> \o Str_title
Str_body == <<"b", "o", "d", "y">>
Str_footer == <<"f", "o", "o", "t", "e", "r">>
Str_notes == <<"n", "o", "t", "e", "s">>
Str_box == <<"b", "o", "x">>

BoxMeta(box_id, shape, shape_name, placeholder_type) ==
    [box_id |-> box_id, shape |-> shape, shape_name |-> shape_name,
     placeholder_type |-> placeholder_type]

\* primary_box_id numbering the body placeholders from 0
primary_box_id_from_zero(placeholder_type, body_count, include_subtitle, include_footer) ==
    IF placeholder_type \in {"TITLE", "CENTER_TITLE"} THEN Str_title
    ELSE IF placeholder_type = "SUBTITLE"
         THEN (IF include_subtitle THEN Str_subtitle ELSE <<>>)
    ELSE IF is_body_placeholder(placeholder_type)
         THEN Str_body \o <<"_">> \o IntRepr(body_count)
    ELSE IF placeholder_type = "FOOTER"
         THEN (IF include_footer THEN Str_footer ELSE <<>>)
    ELSE <<>>

\* the id the primary pass proposes for a placeholder type; <<>> is none
primary_box_id(placeholder_type, body_count, include_subtitle, include_footer) ==
    IF placeholder_type \in {"TITLE", "CENTER_TITLE"} THEN Str_title
    ELSE IF placeholder_type = "SUBTITLE"
         THEN (IF include_subtitle THEN Str_subtitle ELSE <<>>)
    ELSE IF is_body_placeholder(placeholder_type)
         THEN Str_body \o <<"_">> \o IntRepr(body_count + 1)
    ELSE IF placeholder_type = "FOOTER"
         THEN (IF include_footer THEN Str_footer ELSE <<>>)
    ELSE <<>>

RECURSIVE primary_pass(_, _, _, _, _, _)
\* first loop of collect_text_boxes from shape i on; the field shape of a
\* box is the position of its shape in slide.shapes
primary_pass(shapes, i, boxes, body_count, include_subtitle, include_footer) ==
    IF i > Len(shapes) THEN boxes
    ELSE LET shape == shapes[i]
             used_ids == {boxes[k].box_id : k \in 1..Len(boxes)}
             proposed == primary_box_id(shape.ph_type, body_count,
                                        include_subtitle, include_footer)
             counted == IF is_body_placeholder(shape.ph_type)
                        THEN body_count + 1 ELSE body_count
         IN IF ~shape.has_text_frame \/ ~shape.is_placeholder
            THEN primary_pass(shapes, i + 1, boxes, body_count,
                              include_subtitle, include_footer)
            ELSE IF proposed = <<>>
            THEN primary_pass(shapes, i + 1, boxes, counted,
                              include_subtitle, include_footer)
            ELSE primary_pass(shapes, i + 1,
                     Append(boxes,
                            BoxMeta(ensure_unique_id(proposed, used_ids), i,
                                    shape.name,
                                    placeholder_type_name(shape.ph_type))),
                     counted, include_subtitle, include_footer)

\* sha256(guard_source).hexdigest()[:8]
guard_hash(guard_source) == <<"#">> \o guard_source

RECURSIVE fallback_pass_naming_by_text(_, _, _, _)
\* fallback_pass naming an unnamed shape after its text
fallback_pass_naming_by_text(shapes, i, fallback_boxes, fallback_index) ==
    IF i > Len(shapes) THEN fallback_boxes
    ELSE LET shape == shapes[i]
             used_ids == {fallback_boxes[k].box_id : k \in 1..Len(fallback_boxes)}
             named == normalize_shape_name(
                          IF shape.name # <<>> THEN shape.name
                          ELSE extract_text_block(shape))
             index == IF named = <<>> THEN fallback_index + 1 ELSE fallback_index
             guard_source == IntRepr(IF shape.shape_id # 0 THEN shape.shape_id
                                     ELSE index)
             box_id == IF named # <<>> THEN named
                       ELSE Str_box \o <<"_">> \o IntRepr(index) \o <<"_">>
                                \o guard_hash(guard_source)
         IN IF ~shape.has_text_frame \/ shape.is_placeholder
            THEN fallback_pass_naming_by_text(shapes, i + 1, fallback_boxes,
                                              fallback_index)
            ELSE fallback_pass_naming_by_text(shapes, i + 1,
                     Append(fallback_boxes,
                            BoxMeta(ensure_unique_id(box_id, used_ids), i,
                                    shape.name, <<>>)),
                     index)

RECURSIVE fallback_pass(_, _, _, _)
\* second loop of collect_text_boxes from shape i on
fallback_pass(shapes, i, fallback_boxes, fallback_index) ==
    IF i > Len(shapes) THEN fallback_boxes
    ELSE LET shape == shapes[i]
             used_ids == {fallback_boxes[k].box_id : k \in 1..Len(fallback_boxes)}
             named == normalize_shape_name(shape.name)
             index == IF named = <<>> THEN fallback_index + 1 ELSE fallback_index
             guard_source == IntRepr(IF shape.shape_id # 0 THEN shape.shape_id
                                     ELSE index)
             box_id == IF named # <<>> THEN named
                       ELSE Str_box \o <<"_">> \o IntRepr(index) \o <<"_">>
                                \o guard_hash(guard_source)
         IN IF ~shape.has_text_frame \/ shape.is_placeholder
            THEN fallback_pass(shapes, i + 1, fallback_boxes, fallback_index)
            ELSE fallback_pass(shapes, i + 1,
                     Append(fallback_boxes,
                            BoxMeta(ensure_unique_id(box_id, used_ids), i,
                                    shape.name, <<>>)),
                     index)

\* collect_text_boxes running the fallback pass after every primary pass
collect_text_boxes_both_passes(slide, include_subtitle, include_footer, include_fallback) ==
    LET boxes == primary_pass(slide.shapes, 1, <<>>, 0,
                              include_subtitle, include_footer)
    IN IF ~include_fallback
       THEN [boxes |-> boxes, used_fallback |-> FALSE]
       ELSE [boxes |-> boxes \o fallback_pass(slide.shapes, 1, <<>>, 0),
             used_fallback |-> boxes = <<>>]

\* collect_text_boxes(slide, include_subtitle, include_footer,
\* include_fallback) as [boxes, used_fallback]
collect_text_boxes(slide, include_subtitle, include_footer, include_fallback) ==
    LET boxes == primary_pass(slide.shapes, 1, <<>>, 0,
                              include_subtitle, include_footer)
    IN IF boxes # <<>> \/ ~include_fallback
       THEN [boxes |-> boxes, used_fallback |-> FALSE]
       ELSE [boxes |-> fallback_pass(slide.shapes, 1, <<>>, 0),
             used_fallback |-> TRUE]

(***************************************************************************)
(* The patch file (YAML) after yaml.safe_load                              *)
(*   payload      [is_mapping, version, patches_is_list, patches]          *)
(*   slide patch  [is_dict, has_index, source_slide_index, slide_hash,     *)
(*                 boxes_is_list, boxes]                                   *)
(*   box entry    [is_dict, locked, edit_status, box_id, bullets, text,    *)
(*                 text_hash_before]                                       *)
(*   bullets      [t, s, items]: t is "none" (key absent or null), "str",  *)
(*                 "list" or "other" (any other YAML value)                *)
(* version, source_slide_index, edit_status, box_id, text and the hashes   *)
(* hold the str() of the YAML value.                                       *)
(***************************************************************************)
NoBullets == [t |-> "none", s |-> <<>>, items |-> <<>>]
BulletStr(s) == [t |-> "str", s |-> s, items |-> <<>>]
BulletList(items) == [t |-> "list", s |-> <<>>, items |-> items]
BulletOther == [t |-> "other", s |-> <<>>, items |-> <<>>]

BoxEntry(box_id, text_hash_before, text) ==
    [is_dict |-> TRUE, locked |-> FALSE, edit_status |-> <<>>,
     box_id |-> box_id, bullets |-> NoBullets, text |-> text,
     text_hash_before |-> text_hash_before,
     shape_name |-> <<>>, placeholder_type |-> <<>>]

\* a box entry that is not a mapping
JunkEntry == [BoxEntry(<<>>, <<>>, <<>>) EXCEPT !.is_dict = FALSE]

SlidePatch(index, slide_hash, boxes) ==
    [is_dict |-> TRUE, has_index |-> TRUE, source_slide_index |-> index,
     slide_hash |-> slide_hash, boxes_is_list |-> TRUE, boxes |-> boxes]

\* a slide patch that is not a mapping
JunkPatch == [SlidePatch(<<>>, <<>>, <<>>) EXCEPT !.is_dict = FALSE]

Payload(source_pptx, patches) ==
    [is_mapping |-> TRUE, version |-> <<"1">>, source_pptx |-> source_pptx,
     patches_is_list |-> TRUE, patches |-> patches]

(***************************************************************************)
(* text_export.py                                                          *)
(***************************************************************************)
\* shape_name and placeholder_type are left out of the record when empty:
\* the empty value stands for the absent key
build_box_record(shape, box_meta) ==
    LET text_value == extract_text_block(shape)
    IN [BoxEntry(box_meta.box_id, compute_text_hash(text_value), text_value)
           EXCEPT !.shape_name = box_meta.shape_name,
                  !.placeholder_type = box_meta.placeholder_type]

\* the box records of the boxes the locator found on a slide
shape_box_records(slide, boxes) ==
    [k \in 1..Len(boxes) |->
        build_box_record(slide.shapes[boxes[k].shape], boxes[k])]

\* the box record of the speaker notes
notes_box_record(notes_text) ==
    [BoxEntry(Str_notes, compute_text_hash(notes_text), notes_text)
        EXCEPT !.placeholder_type = Str_notes]

\* the slide patch appended to the patches, none for a slide without box
\* records
slide_patch_entry(index, slide_hash, box_records) ==
    IF box_records = <<>> THEN <<>>
    ELSE <<SlidePatch(IntRepr(index), slide_hash, box_records)>>

\* the slide patch write_yaml builds for slide number index; <<>> when the
\* slide has no box records
export_slide(slide, index, include_notes, include_subtitle, include_footer) ==
    LET notes_text == extract_notes_text(slide)
    IN slide_patch_entry(
           index, compute_slide_hash_from_slide(slide, notes_text),
           shape_box_records(slide,
                             collect_text_boxes(slide, include_subtitle,
                                                include_footer, TRUE).boxes)
           \o (IF include_notes THEN <<notes_box_record(notes_text)>>
               ELSE <<>>))

\* the payload write_yaml dumps for the presentation at pptx_path
write_yaml(presentation, source_name, include_notes, include_subtitle, include_footer) ==
    Payload(source_name, Flatten([i \in 1..Len(presentation) |->
        export_slide(presentation[i], i, include_notes, include_subtitle,
                     include_footer)]))

(***************************************************************************)
(* apply_text_edits.py: pure helpers                                       *)
(***************************************************************************)
MAX_BULLET_DEPTH == 4

\* one (level, text) pair of parse_text_lines
parse_line(raw_line) ==
    IF raw_line = <<>> THEN Para(<<>>, 0)
    ELSE Para(LStrip(raw_line, {TAB}), LeadingCount(raw_line, {TAB}))

\* parse_text_lines putting every line at level 0
parse_text_lines_flat(text_value) ==
    IF text_value = <<>> THEN <<>>
    ELSE LET raw == SplitOn(ReplaceLineEndings(text_value), NL)
         IN [i \in 1..Len(raw) |-> Para(LStrip(raw[i], {TAB}), 0)]

parse_text_lines(text_value) ==
    IF text_value = <<>> THEN <<>>
    ELSE LET raw == SplitOn(ReplaceLineEndings(text_value), NL)
         IN [i \in 1..Len(raw) |-> parse_line(raw[i])]

Rendered(lines) == [ok |-> TRUE, lines |-> lines]
RenderError == [ok |-> FALSE, lines |-> <<>>]

RECURSIVE render_bullets(_, _)
RECURSIVE render_items(_, _, _)
\* the for loop of render_bullets over items[i..], lines rendered so far
render_items(items, i, level) ==
    IF i > Len(items) THEN Rendered(<<>>)
    ELSE LET item == items[i]
             first == IF item.t = "str"
                      THEN Rendered(<<Repeat(TAB, level) \o item.s>>)
                      ELSE IF item.t = "list"
                      THEN render_bullets(item, level + 1)
                      ELSE RenderError
             rest == render_items(items, i + 1, level)
         IN IF first.ok /\ rest.ok THEN Rendered(first.lines \o rest.lines)
            ELSE RenderError

\* render_bullets with the depth test off by one
render_bullets_one_deeper(items, level) ==
    IF items.t = "none" THEN Rendered(<<>>)
    ELSE IF level > MAX_BULLET_DEPTH THEN RenderError
    ELSE IF items.t = "str" THEN Rendered(<<Repeat(TAB, level) \o items.s>>)
    ELSE IF items.t # "list" THEN RenderError
    ELSE render_items(items.items, 1, level)

\* render_bullets(items, level): [ok, lines], ok FALSE when it raises
render_bullets(items, level) ==
    IF items.t = "none" THEN Rendered(<<>>)
    ELSE IF level >= MAX_BULLET_DEPTH THEN RenderError
    ELSE IF items.t = "str" THEN Rendered(<<Repeat(TAB, level) \o items.s>>)
    ELSE IF items.t # "list" THEN RenderError
    ELSE render_items(items.items, 1, level)

\* resolve_box_text(box): [ok, text], ok FALSE when render_bullets raises
resolve_box_text(box) ==
    IF box.bullets.t # "none"
    THEN LET r == render_bullets(box.bullets, 0)
         IN [ok |-> r.ok, text |-> JoinWith(r.lines, NL)]
    ELSE [ok |-> TRUE, text |-> box.text]

LockWords == {<<"l", "o", "c", "k", "e", "d">>, <<"s", "k", "i", "p">>,
              <<"f", "r", "o", "z", "e", "n">>}

\* should_skip_box comparing edit_status as written
should_skip_box_exact(box) ==
    IF box.locked THEN TRUE
    ELSE box.edit_status \in LockWords

should_skip_box(box) ==
    IF box.locked THEN TRUE
    ELSE LET stripped == Strip(box.edit_status, Whitespace)
         IN \E word \in LockWords : LowerEquals(stripped, word)

\* text_frame.clear(): one paragraph left, its content removed and its
\* paragraph properties (the level) kept
clear_text_frame(paragraphs) == <<Para(<<>>, paragraphs[1].level)>>

\* set_shape_text putting a new text box in the place of the shape
set_shape_text_replacing_shape(shape, text_value) ==
    IF ~shape.has_text_frame THEN shape
    ELSE LET lines == parse_text_lines(text_value)
         IN [shape EXCEPT !.shape_id = 0, !.name = <<>>,
                          !.is_placeholder = FALSE, !.ph_type = "NONE",
                          !.shape_type = "TEXT_BOX",
                          !.paragraphs = IF lines = <<>>
                                         THEN <<Para(<<>>, 0)>> ELSE lines]

\* the highest value paragraph.level accepts: python-pptx raises
\* ValueError for a level outside 0..8
MAX_PARAGRAPH_LEVEL == 8

\* position of the first line whose level paragraph.level refuses, 0 when
\* there is none
first_refused_level(lines) ==
    LET refused == {i \in 1..Len(lines) :
                       lines[i].level > MAX_PARAGRAPH_LEVEL}
    IN IF refused = {} THEN 0
       ELSE CHOOSE i \in refused : \A j \in refused : i <= j

\* the paragraphs of a text frame after the loop over lines that sets
\* paragraph.text and paragraph.level, r the position of the first line
\* whose level is refused: the loop ends there, the paragraph of that line
\* has its text and the level it had before (that of the cleared paragraph
\* for the first line, 0 for an added paragraph)
written_paragraphs(cleared_level, lines, r) ==
    IF r = 0 THEN lines
    ELSE [i \in 1..r |->
             IF i < r THEN lines[i]
             ELSE Para(lines[r].text, IF r = 1 THEN cleared_level ELSE 0)]

\* set_shape_text(shape, text_value) raises ValueError
set_shape_text_raises(shape, text_value) ==
    /\ shape.has_text_frame
    /\ first_refused_level(parse_text_lines(text_value)) # 0

\* the shape after set_shape_text(shape, text_value), as it is left when
\* the call raises
set_shape_text(shape, text_value) ==
    IF ~shape.has_text_frame THEN shape
    ELSE LET lines == parse_text_lines(text_value)
         IN IF lines = <<>>
            THEN [shape EXCEPT !.paragraphs = clear_text_frame(shape.paragraphs)]
            ELSE [shape EXCEPT !.paragraphs =
                     written_paragraphs(shape.paragraphs[1].level, lines,
                                        first_refused_level(lines))]

\* the slide after set_notes_text(slide, notes_text); slide.notes_slide
\* creates the notes slide when there is none
set_notes_text(slide, notes_text) ==
    IF slide.notes.state = "noframe" THEN slide
    ELSE [slide EXCEPT !.notes = NotesFrame(notes_text)]

(***************************************************************************)
(* State of one editing session: a presentation, the patch file exported   *)
(* from it and edited by hand, and the apply run over both.                *)
(***************************************************************************)
VARIABLES
    input,               \* the presentation file given as input_path
    doc,                 \* the presentation in memory, <<>> before it is read
    payload,             \* the patch file
    input_path,          \* apply arguments
    output_path,
    force,
    include_subtitle,
    include_footer,
    pc,                  \* "author", "load", "patch", "box", "done", "aborted"
    patch_i,             \* position of the for loop over patches (1-based)
    box_i,               \* position of the for loop over boxes_data
    notes_text,          \* locals of the current slide patch
    box_map,
    updated,             \* the five counters
    skipped,
    missing,
    mismatched,
    slide_hash_mismatch,
    output,              \* the output file: <<>> or <<presentation>>
    saves,               \* number of presentation.save calls of this run
    run,                 \* number of the apply run
    first_output,        \* output file as the previous run left it
    first_counters,      \* counters the previous run reported, <<>> for none
    src,                 \* the presentation the patch file was exported from
    include_notes,       \* export argument
    edits,               \* hand edits and external modifications so far
    call                 \* a library function called on its own:
                         \* [fn, args, result], result <<>> before the call

vars == <<input, doc, payload, input_path, output_path, force,
          include_subtitle, include_footer, pc, patch_i,
          box_i, notes_text, box_map, updated, skipped, missing, mismatched,
          slide_hash_mismatch, output, saves, run, first_output,
          first_counters, src,
          include_notes, edits, call>>

\* no library function is called on its own
NoCall == [fn |-> "none", args |-> <<>>, result |-> <<>>]

args == <<force, include_subtitle, include_footer, include_notes, src>>
paths == <<input_path, output_path>>
counters == <<updated, skipped, missing, mismatched, slide_hash_mismatch>>
locals == <<notes_text, box_map>>

(***************************************************************************)
(* Bounds and input sets                                                   *)
(***************************************************************************)
MaxEdits == 1
MaxRuns == 2
MaxRows == 3
MaxEntries == 2

T_a == <<"a">>
T_b == <<"b">>
T_n == <<"n">>
T_z == <<"z">>
\* same normalised text as T_a
T_a_padded == <<"a", SP>>
T_nested == <<"z", NL, TAB, "y">>
T_blank_line == <<"z", NL, NL, "y", SP>>

Geom1 == <<1, 1, 8, 2>>
Geom2 == <<1, 4, 8, 5>>

Name_title == <<"T", "i", "t", "l", "e", SP, "1">>
Name_body == <<"C", "o", "n", "t", "e", "n", "t", SP, "2">>
Name_pic == <<"P", "i", "c">>
Name_notes == <<"N", "o", "t", "e", "s">>

TitleShape(text) == PlaceholderShape(2, Name_title, "TITLE", Geom1,
                                     <<Para(text, 0)>>)
BodyShape(paragraphs) == PlaceholderShape(3, Name_body, "BODY", Geom2,
                                          paragraphs)
Picture == PictureShape(4, Name_pic, Geom2, <<"p", "n", "g">>)

Slide(shapes, notes) == [shapes |-> shapes, notes |-> notes]

\* title, two-level body, picture, speaker notes
SlideTitleBody ==
    Slide(<<TitleShape(T_a), BodyShape(<<Para(T_b, 0), Para(T_b, 1)>>),
            Picture>>, NotesFrame(T_n))
\* free text boxes only, one of them named "Notes", one unnamed
SlideTextBoxes ==
    Slide(<<TextBoxShape(5, Name_notes, Geom1, <<Para(T_a, 0)>>),
            TextBoxShape(6, <<>>, Geom2, <<Para(T_b, 0)>>)>>, NoNotes)
\* title only; the notes slide has no notes placeholder
SlideNoNotesFrame == Slide(<<TitleShape(T_a)>>, NotesWithoutFrame)
\* title only, no notes slide
SlideTitleOnly == Slide(<<TitleShape(T_b)>>, NoNotes)

Scenario(d, n, s, f) ==
    [doc |-> d, include_notes |-> n, include_subtitle |-> s,
     include_footer |-> f]

Scenarios ==
    {Scenario(<<SlideTitleBody>>, TRUE, FALSE, FALSE),
     Scenario(<<SlideTitleOnly, SlideTitleBody>>, FALSE, FALSE, FALSE),
     Scenario(<<SlideTextBoxes>>, FALSE, FALSE, FALSE),
     Scenario(<<SlideNoNotesFrame>>, TRUE, FALSE, FALSE)}

\* texts an external tool or a hand edit puts into a box
ExternalTexts == {T_z, T_a_padded}
PatchTexts == {T_z, T_nested, T_blank_line}

\* bullets a hand edit puts into a box entry: a flat list, a list nested to
\* level 3, a list nested to level 4, a bare string, a non-list value
BulletsFlat == BulletList(<<BulletStr(T_z), BulletStr(<<"y">>)>>)
BulletsLevel3 ==
    BulletList(<<BulletStr(T_z),
        BulletList(<<BulletStr(<<"y">>),
            BulletList(<<BulletList(<<BulletStr(<<"x">>)>>)>>)>>),
        BulletStr(<<"w">>)>>)
BulletsLevel4 ==
    BulletList(<<BulletStr(T_z),
        BulletList(<<BulletList(<<BulletList(<<BulletList(<<>>)>>)>>)>>)>>)
BulletChoices == {BulletsFlat, BulletsLevel3, BulletsLevel4, BulletStr(T_z),
                  BulletOther, BulletList(<<BulletStr(T_z), BulletOther>>)}

\* paths given as input_path and output_path
Path_pptx == <<"d", ".", "p", "p", "t", "x">>
Path_odp == <<"d", ".", "O", "D", "P">>
Path_ppt == <<"d", ".", "p", "p", "t">>
Path_key == <<"d", ".", "p", "p", "t", "x", "/", "d", ".", "k", "e", "y">>
Path_out_odp == <<"e", ".", "o", "d", "p">>
Path_out_pptx == <<"e", ".", "p", "p", "t", "x">>

\* the pairs of input_path and output_path a run is started with
PathChoices == {<<Path_pptx, Path_out_pptx>>, <<Path_pptx, Path_out_odp>>,
                <<Path_odp, Path_out_pptx>>, <<Path_ppt, Path_out_pptx>>,
                <<Path_key, Path_out_odp>>}

\* a 16-hex string that is no digest of the session
WrongHash == <<"0", "0">>
Str_unknown == <<"z", "z", "z">>

(***************************************************************************)
(* apply_text_edits.py: the apply run                                      *)
(***************************************************************************)
\* the checks of apply_text_edits on the patch file
\* int(version) raises ValueError for a digit string that is not decimal or
\* has more than INT_MAX_STR_DIGITS digits
payload_accepted(pl) ==
    /\ pl.is_mapping
    /\ IsDigitStr(pl.version)
    /\ IntOk(pl.version)
    /\ IntValue(pl.version) = 1
    /\ pl.patches_is_list

\* s.endswith(suffix)
EndsWith(s, suffix) ==
    /\ Len(s) >= Len(suffix)
    /\ SubSeq(s, Len(s) - Len(suffix) + 1, Len(s)) = suffix

Ext_pptx == <<".", "p", "p", "t", "x">>
Ext_odp == <<".", "o", "d", "p">>

\* what resolve_input_pptx does with the input path: "as_is" (the path is
\* returned), "convert" (soffice_tools.convert_odp_to_pptx is called) or
\* "error" (ValueError)
resolve_input_pptx(in_path, temp_dir) ==
    LET lowered == Lower(in_path)
    IN IF EndsWith(lowered, Ext_pptx) THEN "as_is"
       ELSE IF EndsWith(lowered, Ext_odp)
       THEN IF ~temp_dir THEN "error" ELSE "convert"
       ELSE "error"

\* int(slide_index_text) raises ValueError: the text passed isdigit() and
\* holds a digit that is not decimal, or more than INT_MAX_STR_DIGITS digits
slide_index_raises(patch) ==
    /\ patch.has_index
    /\ IsDigitStr(patch.source_slide_index)
    /\ ~IntOk(patch.source_slide_index)

\* the slide number a slide patch names, 0 when it names none
slide_number_of(patch, presentation) ==
    IF ~patch.has_index THEN 0
    ELSE IF ~IsDigitStr(patch.source_slide_index) THEN 0
    ELSE IF ~IntOk(patch.source_slide_index) THEN 0
    ELSE LET slide_number == IntValue(patch.source_slide_index)
         IN IF slide_number < 1 \/ slide_number > Len(presentation) THEN 0
            ELSE slide_number

\* slide_patch_outcome counting a slide patch that names no slide as a
\* slide-hash mismatch
slide_patch_outcome_miscounted(patch, presentation) ==
    IF ~patch.is_dict THEN "junk"
    ELSE IF slide_index_raises(patch) THEN "error"
    ELSE IF slide_number_of(patch, presentation) = 0
    THEN "slide_hash_mismatch"
    ELSE LET slide == presentation[slide_number_of(patch, presentation)]
             current_hash == compute_slide_hash_from_slide(
                                 slide, extract_notes_text(slide))
         IN IF patch.slide_hash = <<>> \/ patch.slide_hash # current_hash
            THEN "slide_hash_mismatch"
            ELSE IF ~patch.boxes_is_list THEN "missing"
            ELSE "enter"

\* slide_patch_outcome without the comparison of the recorded slide hash
slide_patch_outcome_unchecked(patch, presentation) ==
    IF ~patch.is_dict THEN "junk"
    ELSE IF slide_index_raises(patch) THEN "error"
    ELSE IF slide_number_of(patch, presentation) = 0 THEN "missing"
    ELSE IF ~patch.boxes_is_list THEN "missing"
    ELSE "enter"

\* slide_patch_outcome comparing the recorded slide hash with the signature
\* the slide had when the presentation was opened
slide_patch_outcome_cached(patch, presentation) ==
    IF ~patch.is_dict THEN "junk"
    ELSE IF slide_index_raises(patch) THEN "error"
    ELSE IF slide_number_of(patch, presentation) = 0 THEN "missing"
    ELSE LET slide == input[slide_number_of(patch, presentation)]
             current_hash == compute_slide_hash_from_slide(
                                 slide, extract_notes_text(slide))
             expected_hash == patch.slide_hash
         IN IF expected_hash = <<>> \/ expected_hash # current_hash
            THEN "slide_hash_mismatch"
            ELSE IF ~patch.boxes_is_list THEN "missing"
            ELSE "enter"

\* what the body of the for loop over patches does with one slide patch,
\* up to the for loop over its boxes: "junk" (not a mapping, skipped
\* uncounted), "error" (an exception ends the run), "missing",
\* "slide_hash_mismatch" or "enter"
slide_patch_outcome(patch, presentation) ==
    IF ~patch.is_dict THEN "junk"
    ELSE IF slide_index_raises(patch) THEN "error"
    ELSE IF slide_number_of(patch, presentation) = 0 THEN "missing"
    ELSE LET slide == presentation[slide_number_of(patch, presentation)]
             current_hash == compute_slide_hash_from_slide(
                                 slide, extract_notes_text(slide))
             expected_hash == patch.slide_hash
         IN IF expected_hash = <<>> \/ expected_hash # current_hash
            THEN "slide_hash_mismatch"
            ELSE IF ~patch.boxes_is_list THEN "missing"
            ELSE "enter"

\* box_map.get(box_id): position in boxes of the entry, 0 for None
box_map_get(boxes, box_id) ==
    IF \E k \in 1..Len(boxes) : boxes[k].box_id = box_id
    THEN CHOOSE k \in 1..Len(boxes) :
             /\ boxes[k].box_id = box_id
             /\ \A j \in (k + 1)..Len(boxes) : boxes[j].box_id # box_id
    ELSE 0

BoxResult(kind, slide) == [kind |-> kind, slide |-> slide]

\* the notes branch of the loop body
apply_notes_box(box, slide, notes, forced) ==
    LET new_text == resolve_box_text(box)
        current_notes_hash == compute_text_hash(notes)
        expected_notes_hash == box.text_hash_before
    IN IF ~new_text.ok THEN BoxResult("error", slide)
       ELSE IF ~forced /\ expected_notes_hash # <<>>
                       /\ expected_notes_hash # current_notes_hash
       THEN BoxResult("mismatched", slide)
       ELSE BoxResult("updated", set_notes_text(slide, new_text.text))

\* the shape branch of the loop body
apply_shape_box(box, slide, boxes, forced) ==
    LET k == box_map_get(boxes, box.box_id)
        shape == slide.shapes[boxes[k].shape]
        current_text == extract_text_block(shape)
        expected_hash == box.text_hash_before
        current_hash == compute_text_hash(current_text)
        new_text == resolve_box_text(box)
    IN IF k = 0 THEN BoxResult("missing", slide)
       ELSE IF ~forced /\ expected_hash # <<>> /\ expected_hash # current_hash
       THEN BoxResult("mismatched", slide)
       ELSE IF ~new_text.ok THEN BoxResult("error", slide)
       ELSE BoxResult(IF set_shape_text_raises(shape, new_text.text)
                      THEN "error" ELSE "updated",
                [slide EXCEPT !.shapes[boxes[k].shape] =
                    set_shape_text(shape, new_text.text)])

\* one iteration of the for loop over boxes_data: the outcome "junk",
\* "skipped", "missing", "mismatched", "updated" or "error" (an exception
\* leaves the loop: bullets that do not render, a paragraph level that
\* python-pptx refuses) and the slide afterwards
apply_box(box, slide, notes, boxes, forced) ==
    IF ~box.is_dict THEN BoxResult("junk", slide)
    ELSE IF should_skip_box(box) THEN BoxResult("skipped", slide)
    ELSE IF box.box_id = <<>> THEN BoxResult("missing", slide)
    ELSE IF box.box_id = Str_notes
    THEN apply_notes_box(box, slide, notes, forced)
    ELSE apply_shape_box(box, slide, boxes, forced)

Bump(counter, kind, outcome) == IF outcome = kind THEN counter + 1 ELSE counter

\* apply_text_edits up to the first loop iteration: the patch file is
\* validated, the input path resolved (an .odp input converted by soffice,
\* which may fail), the presentation opened, the counters zeroed
LoadPatch ==
    /\ pc = "load"
    /\ \E soffice_ok \in BOOLEAN :
        \E needs_conversion \in {EndsWith(Lower(input_path), Ext_odp)} :
        \E resolved \in {IF payload_accepted(payload)
                          THEN resolve_input_pptx(input_path,
                                                  needs_conversion)
                          ELSE "error"} :
        LET opened == \/ resolved = "as_is"
                      \/ resolved = "convert" /\ soffice_ok
        IN /\ pc' = IF opened THEN "patch" ELSE "aborted"
           /\ doc' = IF opened THEN input ELSE doc
    /\ patch_i' = 1
    /\ box_i' = 0
    /\ updated' = 0 /\ skipped' = 0 /\ missing' = 0
    /\ mismatched' = 0 /\ slide_hash_mismatch' = 0
    /\ UNCHANGED <<input, payload, paths, args, locals, output, saves, run,
                   first_output, first_counters, edits, call>>

\* one slide patch, from the top of the loop body to the loop over its boxes
SlidePatchStep ==
    /\ pc = "patch"
    /\ patch_i <= Len(payload.patches)
    /\ \E patch \in {payload.patches[patch_i]} :
       \E outcome \in {slide_patch_outcome(patch, doc)} :
       \E slide_number \in {slide_number_of(patch, doc)} :
       LET \* the slide was looked up: notes_text is assigned
           found == outcome \notin {"junk", "error"} /\ slide_number # 0
           \* the slide hash was accepted: box_map is assigned
           collected == found /\ outcome # "slide_hash_mismatch"
           enter == outcome = "enter" /\ patch.boxes # <<>>
       IN /\ missing' = Bump(missing, "missing", outcome)
          /\ slide_hash_mismatch' =
                 Bump(slide_hash_mismatch, "slide_hash_mismatch", outcome)
          /\ notes_text' = IF found
                           THEN extract_notes_text(doc[slide_number])
                           ELSE notes_text
          /\ box_map' = IF collected
                        THEN collect_text_boxes(doc[slide_number],
                                                include_subtitle,
                                                include_footer, TRUE).boxes
                        ELSE box_map
          /\ pc' = IF outcome = "error" THEN "aborted"
                   ELSE IF enter THEN "box" ELSE "patch"
          /\ box_i' = IF enter THEN 1 ELSE 0
          /\ patch_i' = IF enter \/ outcome = "error"
                        THEN patch_i ELSE patch_i + 1
    /\ UNCHANGED <<input, doc, payload, paths, args, updated, skipped,
                   mismatched,
                   output, saves, run, first_output, first_counters, edits,
                   call>>

\* one box entry of the current slide patch
BoxStep ==
    /\ pc = "box"
    /\ \E patch \in {payload.patches[patch_i]} :
       \E n \in {slide_number_of(patch, doc)} :
       \E result \in {apply_box(patch.boxes[box_i], doc[n], notes_text,
                                box_map, force)} :
       LET last == box_i = Len(patch.boxes)
       IN /\ doc' = [doc EXCEPT ![n] = result.slide]
          /\ updated' = Bump(updated, "updated", result.kind)
          /\ skipped' = Bump(skipped, "skipped", result.kind)
          /\ missing' = Bump(missing, "missing", result.kind)
          /\ mismatched' = Bump(mismatched, "mismatched", result.kind)
          /\ pc' = IF result.kind = "error" THEN "aborted"
                   ELSE IF last THEN "patch" ELSE "box"
          /\ box_i' = IF result.kind = "error" THEN box_i
                      ELSE IF last THEN 0 ELSE box_i + 1
          /\ patch_i' = IF result.kind # "error" /\ last
                        THEN patch_i + 1 ELSE patch_i
    /\ UNCHANGED <<input, payload, paths, args, locals, slide_hash_mismatch,
                   output,
                   saves, run, first_output, first_counters, edits, call>>

\* Save with presentation.save inside the for loop over patches
Save_inside_loop ==
    /\ pc = "patch"
    /\ patch_i > Len(payload.patches) \/ saves = 0
    /\ output' = <<doc>>
    /\ saves' = saves + 1
    /\ pc' = IF patch_i > Len(payload.patches) THEN "done" ELSE "patch"
    /\ UNCHANGED <<input, doc, payload, paths, args, patch_i, box_i, locals,
                   counters, run, first_output, first_counters, edits, call>>

\* after the last slide patch: presentation.save(output_path), or for an
\* .odp output presentation.save to a temporary file, which soffice then
\* converts to output_path (the conversion may fail: the temporary file
\* was saved, the output file is not written)
Save ==
    /\ pc = "patch"
    /\ patch_i > Len(payload.patches)
    /\ \E soffice_ok \in BOOLEAN :
        \E written \in {~EndsWith(Lower(output_path), Ext_odp)
                         \/ soffice_ok} :
           /\ output' = IF written THEN <<doc>> ELSE output
           /\ saves' = saves + 1
           /\ pc' = IF written THEN "done" ELSE "aborted"
    /\ UNCHANGED <<input, doc, payload, paths, args, patch_i, box_i, locals,
                   counters, run, first_output, first_counters, edits, call>>

\* the same patch file applied again, to the output of the finished run
Reapply ==
    /\ pc = "done"
    /\ run < MaxRuns
    /\ run' = run + 1
    /\ input' = output[1]
    /\ input_path' = output_path
    /\ first_output' = output
    /\ first_counters' = counters
    /\ saves' = 0
    /\ pc' = "load"
    /\ UNCHANGED <<doc, payload, output_path, args, patch_i, box_i, locals,
                   counters, output, edits, call>>

(***************************************************************************)
(* The session before the apply run: export, hand edits of the patch file, *)
(* modification of the presentation by another tool                        *)
(***************************************************************************)
\* hand edits of one box entry
EntryVariants(e) ==
    {[e EXCEPT !.text = t] : t \in PatchTexts}
    \cup {[e EXCEPT !.bullets = b] : b \in BulletChoices}
    \cup {[e EXCEPT !.locked = TRUE],
          [e EXCEPT !.edit_status = <<SP, "S", "k", "i", "p", SP>>],
          [e EXCEPT !.locked = TRUE, !.box_id = Str_unknown]}
    \cup {[e EXCEPT !.box_id = id] : id \in {<<>>, Str_unknown}}
    \cup {[e EXCEPT !.text_hash_before = h] : h \in {<<>>, WrongHash}}
    \cup {JunkEntry}

\* the number 1 written with one digit more than int() converts
Str_long_one ==
    [i \in 1..(INT_MAX_STR_DIGITS + 1) |->
        IF i = INT_MAX_STR_DIGITS + 1 THEN "1" ELSE "0"]

\* hand edits of one slide patch
SlidePatchVariants(sp) ==
    {[sp EXCEPT !.source_slide_index = ix] :
        ix \in {<<"x">>, <<"0">>, <<"2">>, <<"9">>, <<"U+00B2">>,
                Str_long_one}}
    \cup {[sp EXCEPT !.has_index = FALSE]}
    \cup {[sp EXCEPT !.slide_hash = h] : h \in {<<>>, WrongHash}}
    \cup {[sp EXCEPT !.boxes_is_list = FALSE]}
    \cup {[sp EXCEPT !.boxes = Append(sp.boxes, sp.boxes[1])]}
    \cup {JunkPatch}

\* hand edits of the top level of the patch file
PayloadVariants(pl) ==
    {[pl EXCEPT !.is_mapping = FALSE],
     [pl EXCEPT !.version = <<"2">>],
     [pl EXCEPT !.version = <<"1", ".", "0">>],
     [pl EXCEPT !.version = Str_long_one],
     [pl EXCEPT !.patches_is_list = FALSE],
     [pl EXCEPT !.patches = <<pl.patches[1]>> \o pl.patches]}

Init ==
    /\ \E sc \in Scenarios :
        /\ input = sc.doc
        /\ src = sc.doc
        /\ include_notes = sc.include_notes
        /\ include_subtitle = sc.include_subtitle
        /\ include_footer = sc.include_footer
        /\ payload = write_yaml(sc.doc, Path_pptx, sc.include_notes, sc.include_subtitle,
                                sc.include_footer)
    /\ doc = <<>>
    /\ force = FALSE
    /\ input_path = Path_pptx /\ output_path = Path_out_pptx
    /\ pc = "author"
    /\ patch_i = 0 /\ box_i = 0
    /\ notes_text = <<>> /\ box_map = <<>>
    /\ updated = 0 /\ skipped = 0 /\ missing = 0
    /\ mismatched = 0 /\ slide_hash_mismatch = 0
    /\ output = <<>> /\ saves = 0 /\ run = 1 /\ first_output = <<>>
    /\ first_counters = <<>>
    /\ edits = 0
    /\ call = NoCall

Authoring == pc = "author" /\ edits < MaxEdits

idle == <<paths, pc, patch_i, box_i, locals, counters, output, saves, run,
          first_output, first_counters, args, call>>

\* another tool rewrites the text of a shape, or the speaker notes
ExternalEdit ==
    /\ Authoring
    /\ \E n \in 1..Len(input), t \in ExternalTexts :
        \/ \E k \in 1..Len(input[n].shapes) :
              /\ input[n].shapes[k].has_text_frame
              /\ input' = [input EXCEPT
                            ![n].shapes[k].paragraphs = <<Para(t, 0)>>]
        \/ /\ input[n].notes.state = "frame"
           /\ input' = [input EXCEPT ![n].notes = NotesFrame(t)]
    /\ edits' = edits + 1
    /\ UNCHANGED <<doc, payload, idle>>

EditEntry ==
    /\ Authoring
    /\ \E p \in 1..Len(payload.patches) :
        \E b \in 1..Len(payload.patches[p].boxes) :
            \E e \in EntryVariants(payload.patches[p].boxes[b]) :
                payload' = [payload EXCEPT !.patches[p].boxes[b] = e]
    /\ edits' = edits + 1
    /\ UNCHANGED <<input, doc, idle>>

EditSlidePatch ==
    /\ Authoring
    /\ \E p \in 1..Len(payload.patches) :
        /\ payload.patches[p].is_dict
        /\ \E sp \in SlidePatchVariants(payload.patches[p]) :
                payload' = [payload EXCEPT !.patches[p] = sp]
    /\ edits' = edits + 1
    /\ UNCHANGED <<input, doc, idle>>

EditPayload ==
    /\ Authoring
    /\ payload.patches # <<>>
    /\ \E pl \in PayloadVariants(payload) : payload' = pl
    /\ edits' = edits + 1
    /\ UNCHANGED <<input, doc, idle>>

\* apply_text_edits is started on the presentation and the patch file, with
\* the input and output path of one of the choices
StartApplyOn(choices) ==
    /\ pc = "author"
    /\ \E f \in BOOLEAN : force' = f
    /\ \E pp \in choices :
        /\ input_path' = pp[1]
        /\ output_path' = pp[2]
    /\ pc' = "load"
    /\ UNCHANGED <<input, doc, payload, include_subtitle, include_footer,
                   include_notes, src, patch_i, box_i, locals, counters,
                   output, saves, run, first_output, first_counters, edits,
                   call>>

StartApply == StartApplyOn(PathChoices)

Next ==
    \/ ExternalEdit
    \/ EditEntry
    \/ EditSlidePatch
    \/ EditPayload
    \/ StartApply
    \/ LoadPatch
    \/ SlidePatchStep
    \/ BoxStep
    \/ Save
    \/ Reapply

Spec == Init /\ [][Next]_vars

(***************************************************************************)
(* Applying one patch file twice: patch files put together from slide      *)
(* patches that were exported from versions of the presentation, each      *)
(* reduced to one box entry with an edited text                            *)
(***************************************************************************)
MaxPatches == 2

TwoBoxSlide(title, body) ==
    Slide(<<TitleShape(title), BodyShape(<<Para(body, 0)>>)>>, NoNotes)

TwiceDoc == <<TwoBoxSlide(T_a, T_b), TwoBoxSlide(T_z, T_b)>>

\* the versions of a slide that patches were exported from
SlideVersions == {TwoBoxSlide(t, T_b) : t \in {T_a, T_z}}

TwiceTexts == {T_z, <<SP>>}

\* slide patches with one box entry
OneEntryPatch(sp, b, t) ==
    [sp EXCEPT !.boxes = <<[sp.boxes[b] EXCEPT !.text = t]>>]

TwiceSlidePatches ==
    {OneEntryPatch(export_slide(v, n, FALSE, FALSE, FALSE)[1], b, t) :
        v \in SlideVersions, n \in 1..Len(TwiceDoc), b \in 1..2,
        t \in TwiceTexts}

RECURSIVE SeqsUpTo(_, _)
\* the sequences over S of length at most n
SeqsUpTo(S, n) ==
    IF n = 0 THEN {<<>>}
    ELSE LET shorter == SeqsUpTo(S, n - 1)
         IN shorter \cup {Append(q, x) : q \in shorter, x \in S}

InitTwice ==
    /\ input = TwiceDoc
    /\ src = TwiceDoc
    /\ include_notes = FALSE
    /\ include_subtitle = FALSE
    /\ include_footer = FALSE
    /\ \E patches \in SeqsUpTo(TwiceSlidePatches, MaxPatches) :
          payload = Payload(Path_pptx, patches)
    /\ doc = <<>>
    /\ force \in BOOLEAN
    /\ input_path = Path_pptx /\ output_path = Path_out_pptx
    /\ pc = "load"
    /\ patch_i = 0 /\ box_i = 0
    /\ notes_text = <<>> /\ box_map = <<>>
    /\ updated = 0 /\ skipped = 0 /\ missing = 0
    /\ mismatched = 0 /\ slide_hash_mismatch = 0
    /\ output = <<>> /\ saves = 0 /\ run = 1 /\ first_output = <<>>
    /\ first_counters = <<>>
    /\ edits = 0
    /\ call = NoCall

NextTwice ==
    \/ LoadPatch
    \/ SlidePatchStep
    \/ BoxStep
    \/ Save
    \/ Reapply

SpecTwice == InitTwice /\ [][NextTwice]_vars

(***************************************************************************)
(* One slide, its box locator and its signature: a slide is exported, then *)
(* changed once by another tool, then the exported patch file is applied.  *)
(* Beside it, compute_slide_hash called on two XML documents.              *)
(***************************************************************************)
TableShape(id, name, geom, cells) ==
    [BaseShape(id, name, "TABLE", geom) EXCEPT
        !.has_table = TRUE, !.table_cells = cells]

ChartShape(id, name, geom, title) ==
    [BaseShape(id, name, "CHART", geom) EXCEPT
        !.has_chart = TRUE, !.chart_title = title]

T_bb == <<"b", SP, "b">>
Name_box == <<"B", "o", "x">>
Name_box_2 == <<"b", "o", "x", "_", "2">>

\* one placeholder of every kind the locator tells apart, a free text box
\* and a picture
SlideAllPlaceholders ==
    Slide(<<PlaceholderShape(2, Name_title, "CENTER_TITLE", Geom1,
                             <<Para(T_a, 0)>>),
            PlaceholderShape(3, Name_body, "SUBTITLE", Geom2,
                             <<Para(T_bb, 0)>>),
            PlaceholderShape(4, Name_body, "BODY", Geom2, <<Para(T_b, 1)>>),
            PlaceholderShape(5, Name_body, "OBJECT", Geom2, EmptyFrame),
            PlaceholderShape(6, Name_body, "FOOTER", Geom2, <<Para(T_n, 0)>>),
            PlaceholderShape(7, Name_body, "DATE", Geom2, <<Para(T_n, 0)>>),
            TextBoxShape(8, Name_box, Geom1, <<Para(T_z, 0)>>),
            Picture>>, NotesFrame(T_bb))

\* two title placeholders and two footers
SlideTwoTitles ==
    Slide(<<TitleShape(T_a),
            PlaceholderShape(3, Name_title, "CENTER_TITLE", Geom2,
                             <<Para(T_b, 0)>>),
            PlaceholderShape(4, Name_body, "FOOTER", Geom2, <<Para(T_n, 0)>>),
            PlaceholderShape(5, Name_body, "FOOTER", Geom2, <<Para(T_n, 0)>>)>>,
          NoNotes)

\* a subtitle placeholder and a free text box
SlideSubtitleAndBox ==
    Slide(<<PlaceholderShape(2, Name_body, "SUBTITLE", Geom1,
                             <<Para(T_a, 0)>>),
            TextBoxShape(3, Name_box, Geom2, <<Para(T_b, 0)>>)>>,
          NotesFrame(T_n))

\* free shapes only: text boxes with clashing names, a text box without
\* name and shape id, a table, a chart, a group of a text box and a picture
SlideFreeShapes ==
    Slide(<<TextBoxShape(2, Name_box, Geom1, <<Para(T_a, 0)>>),
            TextBoxShape(3, Name_box, Geom1, <<Para(T_a, 0)>>),
            TextBoxShape(4, Name_box_2, Geom2, <<Para(T_bb, 0)>>),
            TextBoxShape(0, <<>>, Geom2, <<Para(T_b, 0)>>),
            TableShape(6, Name_pic, Geom2,
                       <<<<Para(T_a, 0)>>, <<Para(T_b, 0)>>>>),
            ChartShape(7, Name_pic, Geom2, <<Para(T_z, 0)>>),
            GroupShape(8, Name_pic, Geom1,
                       <<TextBoxShape(9, Name_box, Geom2, <<Para(T_n, 0)>>),
                         Picture>>)>>, NoNotes)

\* a picture placeholder filled with a picture (PlaceholderPicture): its
\* shape_type is PLACEHOLDER, it has an image and no text frame
PlaceholderPictureShape(id, name, geom, blob) ==
    [BaseShape(id, name, "PLACEHOLDER", geom) EXCEPT
        !.is_placeholder = TRUE, !.ph_type = "PICTURE", !.blob = blob]

\* a title and a filled picture placeholder
SlidePicturePlaceholder ==
    Slide(<<TitleShape(T_a),
            PlaceholderPictureShape(3, Name_pic, Geom2, <<"p", "n", "g">>)>>,
          NoNotes)

\* two filled picture placeholders, one over the other, with different
\* images
SlideTwoPictures ==
    Slide(<<PlaceholderPictureShape(3, Name_pic, Geom2, <<"p", "n", "g">>),
            PlaceholderPictureShape(4, Name_pic, Geom2, <<"q", "n", "g">>)>>,
          NoNotes)

SignatureSlides ==
    {SlideAllPlaceholders, SlideTwoTitles, SlideSubtitleAndBox,
     SlideFreeShapes, SlideTextBoxes, SlideTitleBody,
     SlidePicturePlaceholder, SlideTwoPictures}

EditChars == {"z", SP, TAB}

\* the texts that differ from text in exactly one character
TextVariants(text) ==
    {[text EXCEPT ![i] = c] : i \in 1..Len(text), c \in EditChars} \ {text}

\* the text frames that differ from frame in one character of one paragraph
FrameVariants(frame) ==
    UNION {{[frame EXCEPT ![p].text = t] : t \in TextVariants(frame[p].text)} :
              p \in 1..Len(frame)}

RECURSIVE ShapeTextVariants(_)
\* the shapes that differ from shape in one character of its text: of a
\* paragraph of its text frame, of a table cell, of the chart title, or of
\* a shape of the group
ShapeTextVariants(shape) ==
    {[shape EXCEPT !.paragraphs = f] : f \in FrameVariants(shape.paragraphs)}
    \cup UNION {{[shape EXCEPT !.table_cells[c] = f] :
                    f \in FrameVariants(shape.table_cells[c])} :
                  c \in 1..Len(shape.table_cells)}
    \cup {[shape EXCEPT !.chart_title = f] :
             f \in FrameVariants(shape.chart_title)}
    \cup UNION {{[shape EXCEPT !.shapes[k] = v] :
                    v \in ShapeTextVariants(shape.shapes[k])} :
                  k \in 1..Len(shape.shapes)}

ImageBytes == {"p", "q"}

RECURSIVE ShapeImageVariants(_)
\* the shapes that differ from shape in one byte of a picture
ShapeImageVariants(shape) ==
    ({[shape EXCEPT !.blob[i] = c] :
         i \in 1..Len(shape.blob), c \in ImageBytes} \ {shape})
    \cup UNION {{[shape EXCEPT !.shapes[k] = v] :
                    v \in ShapeImageVariants(shape.shapes[k])} :
                  k \in 1..Len(shape.shapes)}

RECURSIVE ShapeGeometryVariants(_)
\* the shapes that differ from shape by one unit in one of left, top,
\* width, height
ShapeGeometryVariants(shape) ==
    {[shape EXCEPT !.geom[i] = @ + 1] : i \in 1..4}
    \cup {[shape EXCEPT !.geom[i] = @ - 1] : i \in 1..4}
    \cup UNION {{[shape EXCEPT !.shapes[k] = v] :
                    v \in ShapeGeometryVariants(shape.shapes[k])} :
                  k \in 1..Len(shape.shapes)}

NewNames == {<<>>, Name_notes, <<"X">>}

RECURSIVE Relabelled(_, _, _)
\* shape and the shapes inside it with other shape ids and names
Relabelled(shape, offset, name) ==
    [shape EXCEPT !.shape_id = @ + offset, !.name = name,
                  !.shapes = [k \in 1..Len(shape.shapes) |->
                                 Relabelled(shape.shapes[k], offset, name)]]

\* the slides that differ from slide in exactly one shape, taken from
\* Variants of that shape
OneShapeChanged(slide, Variants(_)) ==
    UNION {{[slide EXCEPT !.shapes[k] = v] : v \in Variants(slide.shapes[k])} :
              k \in 1..Len(slide.shapes)}

\* the slide with the shapes at positions i and j exchanged
Swapped(slide, i, j) ==
    [slide EXCEPT !.shapes[i] = slide.shapes[j], !.shapes[j] = slide.shapes[i]]

RelabelledShapes(shape) ==
    {Relabelled(shape, 10, nm) : nm \in NewNames} \ {shape}

Tag_slide == <<"s", "l", "i", "d", "e">>
Tag_shape == <<"s", "h", "a", "p", "e">>
Tag_pic == <<"p", "i", "c">>
Tag_link == <<"l", "i", "n", "k">>

Attr_id == <<"i", "d">>
Attr_name == <<"n", "a", "m", "e">>
Attr_rid == <<"{", "r", "}", "i", "d">>
Attr_type == <<"t", "y", "p", "e">>

\* <slide id=.. name=.. type=..> text <shape r:id=..>Text</shape></slide>
XmlSlide(id, name, type, rid, text) ==
    XmlBytes(Element(Tag_slide,
        {<<Attr_id, id>>, <<Attr_name, name>>, <<Attr_type, type>>},
        <<SP>>,
        <<Element(Tag_shape, {<<Attr_rid, rid>>}, text, <<>>, <<NL>>)>>,
        <<>>))

XmlDocuments ==
    {XmlSlide(id, name, type, id, text) :
        id \in {<<"1">>, <<"2">>}, name \in {T_a, T_b},
        type \in {T_a, T_b}, text \in {T_a, T_z}}

\* compute_slide_hash called without rel_hashes and rel_tokens
NoRels == [rel_hashes |-> NoRelHashes, rel_tokens |-> <<>>]

Attr_embed == <<"{", "r", "}", "e", "m", "b", "e", "d">>
RelId_1 == <<"r", "I", "d", "1">>
RelId_2 == <<"r", "I", "d", "2">>

RelType_image == <<"i", "m", "a", "g", "e">>
RelType_hyperlink == <<"h", "y", "p", "e", "r", "l", "i", "n", "k">>
Hash_h1 == <<"h", "1">>
Hash_h2 == <<"h", "2">>
Hash_h3 == <<"h", "3">>

\* <slide><pic name=.. r:embed=..></pic><link r:id=..></link></slide>
XmlRelSlide(name, embed, link) ==
    XmlBytes(Element(Tag_slide, {}, <<>>,
        <<Element(Tag_pic, {<<Attr_name, name>>, <<Attr_embed, embed>>},
                  <<>>, <<>>, <<>>),
          Element(Tag_link, {<<Attr_rid, link>>}, <<>>, <<>>, <<>>)>>,
        <<>>))

\* a slide with a picture and a hyperlink, the content hashes of the two
\* related parts by relationship id, and the (type, content hash) tokens
\* in the order the relationships are listed
RelCase(name, embed, link, image_hash, image_first) ==
    [slide_xml |-> XmlRelSlide(name, embed, link),
     name |-> name,
     image_hash |-> image_hash,
     rels |-> [rel_hashes |-> (embed :> image_hash) @@ (link :> Hash_h3),
               rel_tokens |->
                   IF image_first
                   THEN <<<<RelType_image, image_hash>>,
                          <<RelType_hyperlink, Hash_h3>>>>
                   ELSE <<<<RelType_hyperlink, Hash_h3>>,
                          <<RelType_image, image_hash>>>>]]

RelCases ==
    {RelCase(name, ids[1], ids[2], image_hash, image_first) :
        name \in {T_a, RelId_1},
        ids \in {<<RelId_1, RelId_2>>, <<RelId_2, RelId_1>>},
        image_hash \in {Hash_h1, Hash_h2},
        image_first \in BOOLEAN}

\* the state of the apply run before it is started
RunNotStarted ==
    /\ doc = <<>>
    /\ force = FALSE
    /\ input_path = Path_pptx /\ output_path = Path_out_pptx
    /\ pc = "author"
    /\ patch_i = 0 /\ box_i = 0
    /\ notes_text = <<>> /\ box_map = <<>>
    /\ updated = 0 /\ skipped = 0 /\ missing = 0
    /\ mismatched = 0 /\ slide_hash_mismatch = 0
    /\ output = <<>> /\ saves = 0 /\ run = 1 /\ first_output = <<>>
    /\ first_counters = <<>>
    /\ edits = 0

InitSlides ==
    /\ \/ /\ \E slide \in SignatureSlides : src = <<slide>>
          /\ call = NoCall
          /\ include_notes \in BOOLEAN
          /\ include_subtitle \in BOOLEAN
          /\ include_footer \in BOOLEAN
       \/ /\ src = <<>>
          /\ \E one, two \in XmlDocuments :
                call = [fn |-> "compute_slide_hash",
                        args |-> <<one, two, NoRels, NoRels>>,
                        result |-> <<>>]
          /\ include_notes = FALSE
          /\ include_subtitle = FALSE
          /\ include_footer = FALSE
       \/ /\ src = <<>>
          /\ \E one, two \in RelCases :
                call = [fn |-> "compute_slide_hash",
                        args |-> <<one.slide_xml, two.slide_xml,
                                   one.rels, two.rels>>,
                        result |-> <<>>]
          /\ include_notes = FALSE
          /\ include_subtitle = FALSE
          /\ include_footer = FALSE
    /\ input = src
    /\ payload = write_yaml(src, Path_pptx, include_notes, include_subtitle,
                            include_footer)
    /\ RunNotStarted

\* the slide may be changed: once, before the apply run
Untouched == pc = "author" /\ edits = 0 /\ input # <<>>

ChangeSlide(slide) ==
    /\ input' = <<slide>>
    /\ edits' = edits + 1
    /\ UNCHANGED <<doc, payload, idle>>

\* a save by another tool renumbers and renames a shape
RelabelShape ==
    /\ Untouched
    /\ \E slide \in OneShapeChanged(input[1], RelabelledShapes) :
          ChangeSlide(slide)

SwapShapes ==
    /\ Untouched
    /\ \E i, j \in 1..Len(input[1].shapes) :
          i < j /\ ChangeSlide(Swapped(input[1], i, j))

EditShapeText ==
    /\ Untouched
    /\ \E slide \in OneShapeChanged(input[1], ShapeTextVariants) :
          ChangeSlide(slide)

EditNotes ==
    /\ Untouched
    /\ input[1].notes.state = "frame"
    /\ \E t \in TextVariants(input[1].notes.text) :
          ChangeSlide([input[1] EXCEPT !.notes = NotesFrame(t)])

EditImage ==
    /\ Untouched
    /\ \E slide \in OneShapeChanged(input[1], ShapeImageVariants) :
          ChangeSlide(slide)

MoveShape ==
    /\ Untouched
    /\ \E slide \in OneShapeChanged(input[1], ShapeGeometryVariants) :
          ChangeSlide(slide)

\* csv_schema.compute_slide_hash on two XML documents, without notes
CallComputeSlideHash ==
    /\ call.fn = "compute_slide_hash"
    /\ call.result = <<>>
    /\ pc = "author"
    /\ call' = [call EXCEPT !.result =
                   <<compute_slide_hash(call.args[1], <<>>,
                                        call.args[3].rel_hashes,
                                        call.args[3].rel_tokens),
                     compute_slide_hash(call.args[2], <<>>,
                                        call.args[4].rel_hashes,
                                        call.args[4].rel_tokens)>>]
    /\ UNCHANGED <<input, doc, payload, paths, force, include_subtitle,
                   include_footer, pc, patch_i, box_i, locals, counters,
                   output, saves, run, first_output, first_counters, src,
                   include_notes,
                   edits>>

\* apply_text_edits is started on a .pptx presentation, the output a .pptx
StartApplyPptx == StartApplyOn({<<Path_pptx, Path_out_pptx>>})

NextSlides ==
    \/ RelabelShape
    \/ SwapShapes
    \/ EditShapeText
    \/ EditNotes
    \/ EditImage
    \/ MoveShape
    \/ CallComputeSlideHash
    \/ StartApplyPptx
    \/ LoadPatch
    \/ SlidePatchStep
    \/ BoxStep
    \/ Save

SpecSlides == InitSlides /\ [][NextSlides]_vars

(***************************************************************************)
(* Properties                                                              *)
(***************************************************************************)
AtSlidePatch == pc = "patch" /\ patch_i <= Len(payload.patches)

CurrentPatch == payload.patches[patch_i]

\* the slide the current slide patch names, 0 if none
CurrentSlideNumber ==
    IF CurrentPatch.is_dict THEN slide_number_of(CurrentPatch, doc) ELSE 0

SignatureOf(slide) ==
    compute_slide_hash_from_slide(slide, extract_notes_text(slide))

\* the current slide patch names a slide whose signature is not the
\* recorded slide_hash
SlideHashDiffers ==
    /\ AtSlidePatch
    /\ CurrentSlideNumber # 0
    /\ CurrentPatch.slide_hash # SignatureOf(doc[CurrentSlideNumber])

\* the slide patch is left as a slide-hash mismatch: nothing is modified,
\* none of its boxes is processed, only slide_hash_mismatch is incremented
SkippedAsSlideMismatch ==
    /\ doc' = doc
    /\ slide_hash_mismatch' = slide_hash_mismatch + 1
    /\ updated' = updated
    /\ pc' = "patch"
    /\ patch_i' = patch_i + 1

\* the patch file is the export of src, not edited
UneditedExport ==
    payload = write_yaml(src, Path_pptx, include_notes, include_subtitle, include_footer)

\* C1: in an unforced apply a slide patch whose slide_hash differs from the
\* signature of the current slide modifies no box and no notes of the slide,
\* adds exactly 1 to slide_hash_mismatch and nothing to updated.
C1_UnforcedSlideMismatch ==
    [][(~force /\ SlideHashDiffers) => SkippedAsSlideMismatch]_vars

\* a patch exported from the presentation, the presentation then modified
\* by another tool, an unforced run finished with the mismatch counted
C1_Witness ==
    /\ pc = "done" /\ run = 1 /\ ~force
    /\ UneditedExport /\ input # src
    /\ slide_hash_mismatch = 1 /\ updated = 0
    /\ doc = input

\* C2 as claimed: with force a slide patch whose slide_hash does not match
\* is not counted as a slide-hash mismatch and its boxes are processed.
C2_ForceBypassesSlideHash ==
    [][(force /\ SlideHashDiffers /\ CurrentPatch.boxes_is_list
              /\ CurrentPatch.boxes # <<>>)
          => (slide_hash_mismatch' = slide_hash_mismatch /\ pc' = "box")]_vars

AtBox == pc = "box"

CurrentBox == payload.patches[patch_i].boxes[box_i]

\* position in box_map of the shape box the current entry resolves to, 0 if
\* the entry is not a mapping, is locked, names the notes or names no box
ResolvedShapeBox ==
    IF /\ CurrentBox.is_dict
       /\ ~should_skip_box(CurrentBox)
       /\ CurrentBox.box_id # <<>>
       /\ CurrentBox.box_id # Str_notes
    THEN box_map_get(box_map, CurrentBox.box_id)
    ELSE 0

\* the shape of the current slide that box k of box_map stands for
ShapeOfBox(presentation, k) ==
    presentation[CurrentSlideNumber].shapes[box_map[k].shape]

\* the shape holds the lines of text as paragraphs: the leading tabs of a
\* line as the level, the rest as the paragraph text
HoldsLines(shape, text) ==
    IF parse_text_lines(text) = <<>>
    THEN Len(shape.paragraphs) = 1 /\ shape.paragraphs[1].text = <<>>
    ELSE shape.paragraphs = parse_text_lines(text)

\* the entry is marked locked: locked is set, or edit_status reads locked,
\* skip or frozen in any letter case, surrounded by any whitespace
MarkedLocked(box) ==
    \/ box.locked
    \/ LET inner == Strip(box.edit_status, Whitespace)
       IN \E w \in LockWords :
            /\ Len(w) = Len(inner)
            /\ \A i \in 1..Len(w) : LowersTo(inner[i], w[i])

\* the current entry is an unlocked mapping that names the notes
NamesNotes ==
    /\ CurrentBox.is_dict
    /\ ~MarkedLocked(CurrentBox)
    /\ CurrentBox.box_id = Str_notes

\* the box ids collected afresh from the current slide
CollectedIds ==
    LET boxes == collect_text_boxes(doc[CurrentSlideNumber], include_subtitle,
                                    include_footer, TRUE).boxes
    IN {boxes[k].box_id : k \in 1..Len(boxes)}

\* the current entry is an unlocked mapping that names a collected shape box
NamesShapeBox ==
    /\ CurrentBox.is_dict
    /\ ~MarkedLocked(CurrentBox)
    /\ CurrentBox.box_id # Str_notes
    /\ CurrentBox.box_id \in CollectedIds

\* the text the target of the current entry holds now
LiveTargetText ==
    IF NamesNotes THEN extract_notes_text(doc[CurrentSlideNumber])
    ELSE extract_text_block(ShapeOfBox(doc, ResolvedShapeBox))

CountedAsTextMismatch ==
    /\ mismatched' = mismatched + 1
    /\ doc' = doc
    /\ updated' = updated

\* the first box entry of the patch file, JunkEntry if there is none
FirstEntry ==
    IF payload.patches # <<>> /\ payload.patches[1].boxes # <<>>
    THEN payload.patches[1].boxes[1]
    ELSE JunkEntry

\* C3 as claimed: in an unforced apply an entry whose text_hash_before is
\* not the hash of the current normalised text of its target is counted as a
\* text-hash mismatch and the target is left unchanged.
C3_OverwriteOnlyOnEqualHash ==
    [][(~force /\ AtBox /\ (NamesNotes \/ NamesShapeBox)
               /\ CurrentBox.text_hash_before
                      # compute_text_hash(LiveTargetText))
          => CountedAsTextMismatch]_vars

\* C4: a locked entry is never written, with or without force, whether or
\* not its box_id resolves; it adds exactly 1 to skipped and nothing to any
\* other counter.
C4_LockedEntryUntouched ==
    [][(AtBox /\ CurrentBox.is_dict /\ MarkedLocked(CurrentBox))
          => /\ doc' = doc
             /\ skipped' = skipped + 1
             /\ updated' = updated /\ missing' = missing
             /\ mismatched' = mismatched
             /\ slide_hash_mismatch' = slide_hash_mismatch
             /\ pc' # "aborted"]_vars

\* a forced run that skipped an entry locked by edit_status, spelled with
\* capitals and blanks
C4_Witness ==
    /\ pc = "done" /\ run = 1 /\ force
    /\ FirstEntry.edit_status = <<SP, "S", "k", "i", "p", SP>>
    /\ ~FirstEntry.locked
    /\ skipped = 1 /\ missing = 0
    /\ doc[1].shapes[1] = input[1].shapes[1]

\* the text is the decimal digits of a number
IsNumeric(s) == s # <<>> /\ \A i \in 1..Len(s) : s[i] \in Decimals

\* the current slide patch is a mapping that names no slide: index absent,
\* not the decimal digits of a number, below 1 or above the number of slides
NamesNoSlide ==
    /\ AtSlidePatch
    /\ CurrentPatch.is_dict
    /\ \/ ~CurrentPatch.has_index
       \/ ~IsNumeric(CurrentPatch.source_slide_index)
       \/ ParseInt(CurrentPatch.source_slide_index) < 1
       \/ ParseInt(CurrentPatch.source_slide_index) > Len(doc)

\* the current entry is an unlocked mapping that names no target
NamesNoBox ==
    /\ AtBox
    /\ CurrentBox.is_dict
    /\ ~MarkedLocked(CurrentBox)
    /\ \/ CurrentBox.box_id = <<>>
       \/ CurrentBox.box_id \notin (CollectedIds \cup {Str_notes})

OnlyMissingCounted ==
    /\ missing' = missing + 1
    /\ doc' = doc
    /\ updated' = updated /\ skipped' = skipped
    /\ mismatched' = mismatched
    /\ slide_hash_mismatch' = slide_hash_mismatch

\* C5: a slide patch that names no slide and a box entry that names no
\* target each add exactly 1 to missing, modify nothing and raise no error;
\* the loop goes on with the next slide patch or box entry.
C5_MissingTargetsRecoverable ==
    [][/\ NamesNoSlide
          => /\ OnlyMissingCounted
             /\ pc' = "patch" /\ patch_i' = patch_i + 1
       /\ NamesNoBox
          => /\ OnlyMissingCounted
             /\ IF box_i < Len(CurrentPatch.boxes)
                THEN pc' = "box" /\ box_i' = box_i + 1 /\ patch_i' = patch_i
                ELSE pc' = "patch" /\ patch_i' = patch_i + 1]_vars

\* a finished run whose first slide patch named no slide and whose second
\* slide patch was applied
C5_Witness ==
    /\ pc = "done" /\ run = 1
    /\ Len(payload.patches) = 2
    /\ payload.patches[1].source_slide_index = <<"9">>
    /\ missing = 1
    /\ updated = Len(payload.patches[2].boxes)
    /\ updated > 0

\* the text of a presentation: the paragraphs of every shape and the notes
DocText(presentation) ==
    [n \in 1..Len(presentation) |->
        [shapes |-> [k \in 1..Len(presentation[n].shapes) |->
                        presentation[n].shapes[k].paragraphs],
         notes |-> presentation[n].notes.text]]

\* C6 as claimed: after the same patch file was applied twice in succession
\* with force, the document text after the second apply equals the document
\* text after the first.
C6_ForcedApplyIdempotent ==
    (force /\ run = 2 /\ pc = "done")
        => DocText(output[1]) = DocText(first_output[1])

\* positions <<p, b>> of the box entries of the slide patches that are
\* mappings
EntryPositions ==
    UNION {{<<p, b>> : b \in 1..Len(payload.patches[p].boxes)} :
              p \in {q \in 1..Len(payload.patches) : payload.patches[q].is_dict}}

EntryAt(pos) == payload.patches[pos[1]].boxes[pos[2]]

\* the slide number the slide patch of an entry names in the input file
SlideOf(pos) == slide_number_of(payload.patches[pos[1]], input)

\* the box entries that are mappings
MappingEntries == {pos \in EntryPositions : EntryAt(pos).is_dict}

\* the patch file with the text of every box entry blanked
ClearTexts(pl) ==
    [pl EXCEPT !.patches =
        [p \in 1..Len(pl.patches) |->
            [pl.patches[p] EXCEPT !.boxes =
                [b \in 1..Len(pl.patches[p].boxes) |->
                    [pl.patches[p].boxes[b] EXCEPT !.text = <<>>]]]]]

\* the saved presentation holds the text of the entry at pos in the target
\* the entry names: the speaker notes for "notes", else the shape that was
\* collected under the box id from the input file
TargetHolds(pos) ==
    LET e == EntryAt(pos)
        n == SlideOf(pos)
        given == resolve_box_text(e).text
    IN IF n = 0 THEN FALSE
       ELSE IF e.box_id = Str_notes
       THEN normalize_text(extract_notes_text(output[1][n]))
                = normalize_text(given)
       ELSE LET boxes == collect_text_boxes(input[n], include_subtitle,
                                            include_footer, TRUE).boxes
                k == box_map_get(boxes, e.box_id)
            IN /\ k # 0
               /\ HoldsLines(output[1][n].shapes[boxes[k].shape], given)

\* a finished first unforced run over the unmodified presentation and the
\* patch file exported from it, of which at most the texts were edited
RoundTripRun ==
    /\ pc = "done" /\ run = 1 /\ ~force
    /\ input = src
    /\ ClearTexts(payload)
           = ClearTexts(write_yaml(src, Path_pptx, include_notes, include_subtitle,
                                   include_footer))

\* C7: an exported patch file with only texts edited, applied unforced to
\* the unmodified presentation, gives zero slide-hash mismatches, zero
\* text-hash mismatches and zero missing targets, counts every box entry as
\* updated and leaves the text of every entry in its box.
C7_ExportApplyRoundTrip ==
    RoundTripRun =>
        /\ slide_hash_mismatch = 0
        /\ mismatched = 0
        /\ missing = 0
        /\ updated = Cardinality(EntryPositions)
        /\ \A pos \in EntryPositions : TargetHolds(pos)

\* the mapping entries whose target no other entry of the file names
SolelyTargeting ==
    {pos \in MappingEntries :
        \A other \in MappingEntries :
            (SlideOf(other) = SlideOf(pos)
             /\ EntryAt(other).box_id = EntryAt(pos).box_id) => other = pos}

\* C8: when a run finishes with skipped-locked, missing-target,
\* text-hash-mismatch and slide-hash-mismatch all zero, updated equals the
\* number of box entries of the file and every box entry has been written
\* to the document.
C8_CountersAccountForEveryEntry ==
    (/\ pc = "done"
     /\ skipped = 0 /\ missing = 0
     /\ mismatched = 0 /\ slide_hash_mismatch = 0)
        => /\ updated = Cardinality(EntryPositions)
           /\ \A pos \in SolelyTargeting : TargetHolds(pos)

\* the errors that end a run: the patch file is not a mapping, its version
\* is not 1 (or is no number int() reads), its patches are not a list
FatalPayload ==
    \/ ~payload.is_mapping
    \/ ~IsNumeric(payload.version)
    \/ Len(payload.version) > INT_MAX_STR_DIGITS
    \/ ParseInt(payload.version) # 1
    \/ ~payload.patches_is_list

RECURSIVE WellFormedBullets(_, _)
\* bullets made of strings and lists only, no list nested at level 4 or
\* deeper
WellFormedBullets(b, level) ==
    \/ b.t = "str"
    \/ /\ b.t = "list"
       /\ level <= 3
       /\ \A i \in 1..Len(b.items) : WellFormedBullets(b.items[i], level + 1)

\* the input file is no .pptx and no .odp file, or a deck has to be
\* converted by soffice, which can fail
InputRefused == resolve_input_pptx(input_path, TRUE) = "error"
NeedsSoffice ==
    \/ EndsWith(Lower(input_path), Ext_odp)
    \/ EndsWith(Lower(output_path), Ext_odp)

\* the run ended after the last slide patch, in the conversion of the
\* temporary file to the .odp output
ConversionOfOutputFailed ==
    /\ pc = "aborted"
    /\ patch_i > Len(payload.patches)
    /\ EndsWith(Lower(output_path), Ext_odp)

\* C9: a run either works through every slide patch and then saves the
\* output exactly once, or ends on a fatal error (unacceptable patch file,
\* bullets of wrong type or nested too deep) and writes no output, also
\* when boxes were already updated in memory; nothing is saved before the
\* last slide patch is done. A run whose input file is refused or that
\* needs soffice may end on that account; the one save of a run that ends
\* in the conversion of its output is that of the temporary file.
C9_SaveOnceAtEndOrAbort ==
    /\ pc = "done" =>
          /\ saves = 1
          /\ output = <<doc>>
          /\ patch_i = Len(payload.patches) + 1
    /\ pc \in {"load", "patch", "box"} =>
          /\ saves = 0
          /\ output = first_output
    /\ pc = "aborted" =>
          /\ output = first_output
          /\ saves = 0 \/ (saves = 1 /\ ConversionOfOutputFailed)
    /\ pc = "aborted" =>
          \/ FatalPayload
          \/ InputRefused
          \/ NeedsSoffice
          \/ /\ box_i >= 1
             /\ CurrentBox.bullets.t # "none"
             /\ ~WellFormedBullets(CurrentBox.bullets, 0)

\* a run ended by unrenderable bullets after an earlier box was updated
C9_Witness ==
    /\ pc = "aborted"
    /\ ~FatalPayload
    /\ updated >= 1
    /\ saves = 0 /\ output = <<>>

RECURSIVE LeafLines(_, _)
\* the strings of well-formed bullets in document order, each with as many
\* leading tabs as the nesting level of the list it is an item of
LeafLines(b, level) ==
    IF b.t = "str" THEN <<Repeat(TAB, level) \o b.s>>
    ELSE Flatten([i \in 1..Len(b.items) |->
                     IF b.items[i].t = "str"
                     THEN <<Repeat(TAB, level) \o b.items[i].s>>
                     ELSE LeafLines(b.items[i], level + 1)])

\* the bullets given in the box entries of the patch file
GivenBullets ==
    {EntryAt(pos).bullets : pos \in MappingEntries} \ {NoBullets}

\* C10: render_bullets gives the strings of a nested list as lines in
\* depth-first document order, a string of a list at nesting level L with
\* exactly L leading tabs; levels 0 to 3 are accepted, a list nested at
\* level 4 or deeper (or an item that is neither string nor list) raises
\* an error and gives no lines.
C10_RenderBullets ==
    \A b \in GivenBullets :
        LET r == render_bullets(b, 0)
        IN IF WellFormedBullets(b, 0)
           THEN r.ok /\ r.lines = LeafLines(b, 0)
           ELSE ~r.ok /\ r.lines = <<>>

\* a finished run that wrote the list nested to level 3 into a shape: the
\* shape holds the four strings at the levels 0, 1, 3, 0
C10_Witness ==
    /\ pc = "done"
    /\ FirstEntry.bullets = BulletsLevel3
    /\ updated >= 1
    /\ \E n \in 1..Len(doc) : \E k \in 1..Len(doc[n].shapes) :
          doc[n].shapes[k].paragraphs
              = <<Para(T_z, 0), Para(<<"y">>, 1), Para(<<"x">>, 3),
                  Para(<<"w">>, 0)>>

\* the slide of the one-slide presentation under apply
TheSlide == input[1]

\* the placeholder shapes with a text frame
TextPlaceholders(slide) ==
    {i \in 1..Len(slide.shapes) :
        slide.shapes[i].is_placeholder /\ slide.shapes[i].has_text_frame}

\* the id the rule of the primary pass gives the shape at position i, <<>>
\* for no box
RuleId(slide, i, with_subtitle, with_footer) ==
    LET kind == slide.shapes[i].ph_type
        k == Cardinality({j \in TextPlaceholders(slide) :
                 j <= i /\ slide.shapes[j].ph_type
                              \in {"BODY", "OBJECT", "CONTENT", "TEXT"}})
    IN IF i \notin TextPlaceholders(slide) THEN <<>>
       ELSE IF kind \in {"TITLE", "CENTER_TITLE"} THEN Str_title
       ELSE IF kind \in {"BODY", "OBJECT", "CONTENT", "TEXT"}
            THEN Str_body \o <<"_">> \o IntRepr(k)
       ELSE IF kind = "SUBTITLE" /\ with_subtitle THEN Str_subtitle
       ELSE IF kind = "FOOTER" /\ with_footer THEN Str_footer
       ELSE <<>>

\* the boxes are those of the shapes the rule gives an id, in shape order
BoxesInShapeOrder(slide, boxes, with_subtitle, with_footer) ==
    /\ Len(boxes) = Cardinality({i \in 1..Len(slide.shapes) :
                         RuleId(slide, i, with_subtitle, with_footer) # <<>>})
    /\ \A m \in 1..Len(boxes) :
          /\ RuleId(slide, boxes[m].shape, with_subtitle, with_footer) # <<>>
          /\ m < Len(boxes) => boxes[m].shape < boxes[m + 1].shape

\* the boxes of the primary pass alone
PrimaryBoxes ==
    collect_text_boxes(TheSlide, include_subtitle, include_footer, FALSE).boxes

\* C11 as claimed: every box of the primary pass carries the id of the
\* rule (title, body_k, subtitle, footer), and the boxes are exactly the
\* placeholders with a text frame the rule gives an id, in shape order.
C11_PrimaryBoxIds ==
    input # <<>> =>
        /\ BoxesInShapeOrder(TheSlide, PrimaryBoxes, include_subtitle,
                             include_footer)
        /\ \A m \in 1..Len(PrimaryBoxes) :
              PrimaryBoxes[m].box_id
                  = RuleId(TheSlide, PrimaryBoxes[m].shape, include_subtitle,
                           include_footer)

\* the id of the rule for box m, with _n appended for the n-th box (n >= 2)
\* the rule gives that id
RuleIdWithSuffix(slide, boxes, m, with_subtitle, with_footer) ==
    LET id == RuleId(slide, boxes[m].shape, with_subtitle, with_footer)
        n == Cardinality({q \in 1..m :
                 RuleId(slide, boxes[q].shape, with_subtitle, with_footer)
                     = id})
    IN IF n = 1 THEN id ELSE id \o <<"_">> \o IntRepr(n)

\* C11 amended: the boxes of the primary pass are exactly the placeholders
\* with a text frame the rule gives an id (title or centre title: title;
\* k-th body-like: body_k; subtitle and footer only with their flag), in
\* shape order; the first box of an id carries it as it is, the n-th box
\* the rule gives the same id carries it with _n appended.
C11_PrimaryBoxIdsUpToSuffix ==
    input # <<>> =>
        /\ BoxesInShapeOrder(TheSlide, PrimaryBoxes, include_subtitle,
                             include_footer)
        /\ \A m \in 1..Len(PrimaryBoxes) :
              PrimaryBoxes[m].box_id
                  = RuleIdWithSuffix(TheSlide, PrimaryBoxes, m,
                                     include_subtitle, include_footer)

\* the apply run collected the boxes of the slide with one placeholder of
\* every kind, subtitles included and footers not: title, subtitle,
\* body_1, body_2
C11_Witness ==
    /\ pc = "box"
    /\ input = <<SlideAllPlaceholders>>
    /\ include_subtitle /\ ~include_footer
    /\ [m \in 1..Len(box_map) |-> box_map[m].box_id]
           = <<Str_title, Str_subtitle, Str_body \o <<"_", "1">>,
               Str_body \o <<"_", "2">>>>
    /\ [m \in 1..Len(box_map) |-> box_map[m].shape] = <<1, 2, 3, 4>>

\* the box_id values of a list of box entries or box metadata
BoxIds(boxes) == [k \in 1..Len(boxes) |-> boxes[k].box_id]

\* no value occurs twice in the sequence
PairwiseDistinct(seq) ==
    \A i, j \in 1..Len(seq) : seq[i] = seq[j] => i = j

\* the slide patch write_yaml records for the slide, <<>> for none
ExportedPatch ==
    export_slide(TheSlide, 1, include_notes, include_subtitle, include_footer)

\* C12: for every slide and every combination of include flags, the box_id
\* values of the entries of the exported slide patch (collected boxes plus
\* the notes entry when notes are included) are pairwise distinct.
C12_BoxIdsUniqueInSlidePatch ==
    (input # <<>> /\ ExportedPatch # <<>>) =>
        PairwiseDistinct(BoxIds(ExportedPatch[1].boxes))

\* the shapes the fallback pass is about
FreeTextShapes(slide) ==
    {i \in 1..Len(slide.shapes) :
        slide.shapes[i].has_text_frame /\ ~slide.shapes[i].is_placeholder}

\* the rule of the primary pass gives no shape of the slide an id
PrimaryYieldsNothing(slide, with_subtitle, with_footer) ==
    \A i \in 1..Len(slide.shapes) :
        RuleId(slide, i, with_subtitle, with_footer) = <<>>

\* C13: collect_text_boxes reports used_fallback exactly when the primary
\* pass yields no box and include_fallback is set; its boxes are then the
\* non-placeholder shapes with a text frame and no other; otherwise every
\* box is a placeholder shape. Placeholder and fallback boxes never mix.
C13_FallbackOnlyWhenPrimaryEmpty ==
    input # <<>> =>
        \A include_fallback \in BOOLEAN :
            LET result == collect_text_boxes(TheSlide, include_subtitle,
                                             include_footer, include_fallback)
                shapes == {result.boxes[k].shape :
                              k \in 1..Len(result.boxes)}
            IN /\ result.used_fallback
                     <=> (include_fallback
                          /\ PrimaryYieldsNothing(TheSlide, include_subtitle,
                                                  include_footer))
               /\ result.used_fallback => shapes = FreeTextShapes(TheSlide)
               /\ ~result.used_fallback
                     => shapes \subseteq TextPlaceholders(TheSlide)

\* the apply run collected the boxes of the slide holding a subtitle
\* placeholder and a text box, subtitles not included: the primary pass is
\* empty and the one box is the text box
C13_Witness ==
    /\ pc = "box"
    /\ input = <<SlideSubtitleAndBox>>
    /\ ~include_subtitle
    /\ TextPlaceholders(TheSlide) # {}
    /\ box_map # <<>>
    /\ {box_map[k].shape : k \in 1..Len(box_map)} = FreeTextShapes(TheSlide)

\* the slide signature as export and apply compute it
Signature(slide) ==
    compute_slide_hash_from_slide(slide, extract_notes_text(slide))

\* the slide as exported and the slide the patch is applied to
Exported == src[1]

OneSlide == src # <<>> /\ input # <<>>

RECURSIVE WithoutIds(_)
\* the shape with its shape id and name, and those of the shapes inside it,
\* blanked
WithoutIds(shape) ==
    [shape EXCEPT !.shape_id = 0, !.name = <<>>,
                  !.shapes = [k \in 1..Len(shape.shapes) |->
                                 WithoutIds(shape.shapes[k])]]

\* the two slides differ at most in shape ids and shape names
SameUpToIds(one, two) ==
    /\ one.notes = two.notes
    /\ Len(one.shapes) = Len(two.shapes)
    /\ \A k \in 1..Len(one.shapes) :
          WithoutIds(one.shapes[k]) = WithoutIds(two.shapes[k])

\* what the claim takes for a reference to a related part, as r:embed and
\* r:id are: an attribute whose name is in a namespace and whose value is a
\* relationship id of rel_hashes. (build_xml_signature replaces the value
\* of every attribute that is a key of rel_hashes, whatever its name.)
IsRelReference(attr, rel_hashes) ==
    /\ attr[1] # <<>>
    /\ attr[1][1] = "{"
    /\ attr[2] \in DOMAIN rel_hashes

RECURSIVE XmlWithoutIds(_, _)
\* the element, and the elements inside it, with the value of every
\* attribute whose local name is id or name blanked; a reference to a
\* related part stands for the content hash of that part
XmlWithoutIds(element, rel_hashes) ==
    [element EXCEPT
        !.attrib = {IF IsRelReference(a, rel_hashes)
                    THEN <<a[1], rel_hashes[a[2]]>>
                    ELSE IF should_ignore_attr(a[1]) THEN <<a[1], <<>>>>
                    ELSE a : a \in element.attrib},
        !.children = [k \in 1..Len(element.children) |->
                         XmlWithoutIds(element.children[k], rel_hashes)]]

\* the two XML documents, each with the content hashes of its related
\* parts, differ at most in the values of id and name attributes (in any
\* namespace): they have the same elements, texts and other attributes,
\* and refer to related parts of the same content, listed in the same order
XmlSameUpToIds(one, two, rels_one, rels_two) ==
    /\ IsXml(one) /\ IsXml(two)
    /\ XmlWithoutIds(one[2], rels_one.rel_hashes)
           = XmlWithoutIds(two[2], rels_two.rel_hashes)
    /\ rels_one.rel_tokens = rels_two.rel_tokens

\* C14: two slides that differ only in shape ids and shape names have equal
\* signatures, so the patch recorded for one passes the slide-hash check on
\* the other; two slide XML documents that differ only in the values of id
\* and name attributes (in any namespace) have equal slide hashes.
C14_IdInsensitive ==
    /\ (OneSlide /\ SameUpToIds(Exported, TheSlide)) =>
          /\ Signature(Exported) = Signature(TheSlide)
          /\ slide_hash_mismatch = 0
    /\ (call.fn = "compute_slide_hash" /\ call.result # <<>>
        /\ XmlSameUpToIds(call.args[1], call.args[2],
                          call.args[3], call.args[4])) =>
          call.result[1] = call.result[2]

RECURSIVE Visible(_)
\* what the signature is meant to see of a shape: kind, role, geometry,
\* normalized text, image bytes (of a picture and of a filled picture
\* placeholder), shape type, and the same of the shapes inside a group
Visible(shape) ==
    [kind |-> shape_kind(shape),
     role |-> placeholder_role(shape),
     geom |-> shape.geom,
     text |-> normalize_text(JoinWith(extract_shape_text(shape), NL)),
     image |-> shape.blob,
     type |-> shape.shape_type,
     inside |-> IF shape.shape_type = "GROUP"
                THEN [k \in 1..Len(shape.shapes) |->
                         Visible(shape.shapes[k])]
                ELSE <<>>]

\* the patch recorded for the exported slide is rejected as a whole by the
\* apply run, once the run is over
PatchRejected ==
    (pc = "done" /\ Len(payload.patches) = 1) =>
        /\ slide_hash_mismatch = 1
        /\ updated = 0 /\ mismatched = 0 /\ missing = 0 /\ skipped = 0
        /\ output = <<input>>

\* C15: exchanging two shapes of a slide changes the slide signature, and
\* the patch recorded before is rejected with a slide-hash mismatch by an
\* unforced apply.
C15_OrderSensitive ==
    OneSlide =>
        \A i, j \in 1..Len(Exported.shapes) :
            (i < j /\ TheSlide = Swapped(Exported, i, j)) =>
                /\ Signature(TheSlide) # Signature(Exported)
                /\ ~force => PatchRejected

\* one character of the text of one shape was changed after export
OneCharacterOfTextChanged ==
    OneSlide /\ TheSlide \in OneShapeChanged(Exported, ShapeTextVariants)

\* the speaker notes were changed after export, the shapes were not
OnlyNotesChanged ==
    /\ OneSlide
    /\ TheSlide.shapes = Exported.shapes
    /\ extract_notes_text(TheSlide) # extract_notes_text(Exported)

SignatureChanged == Signature(TheSlide) # Signature(Exported)

\* C16 as claimed: changing one character of the text of a shape (text
\* frame paragraph, table cell, chart title), or changing the speaker notes
\* and no shape, changes the slide signature.
C16_TextSensitive ==
    (OneCharacterOfTextChanged \/ OnlyNotesChanged) => SignatureChanged

\* some shape shows another normalized text than at export
NormalizedTextChanged ==
    \E k \in 1..Len(Exported.shapes) :
        Visible(TheSlide.shapes[k]) # Visible(Exported.shapes[k])

NormalizedNotesChanged ==
    normalize_text(extract_notes_text(TheSlide))
        # normalize_text(extract_notes_text(Exported))

\* C16 amended: changing one character of the text of a shape (text frame
\* paragraph, table cell, chart title, also inside a group) changes the
\* slide signature exactly when the normalized text of that shape changes;
\* changing the speaker notes and no shape changes the signature exactly
\* when the normalized notes change. A change that normalize_text removes
\* (one whitespace character for another inside a line, whitespace at the
\* end of a line) leaves the signature as it was.
C16_TextSensitiveUpToNormalization ==
    /\ OneCharacterOfTextChanged =>
          (SignatureChanged <=> NormalizedTextChanged)
    /\ OnlyNotesChanged =>
          (SignatureChanged <=> NormalizedNotesChanged)

\* an unforced apply ended with a slide-hash mismatch after one character
\* of a table cell or chart title was changed
C16_Witness ==
    /\ OneCharacterOfTextChanged
    /\ \E k \in 1..Len(Exported.shapes) :
          /\ Exported.shapes[k].has_table \/ Exported.shapes[k].has_chart
          /\ Visible(TheSlide.shapes[k]) # Visible(Exported.shapes[k])
    /\ pc = "done" /\ ~force
    /\ slide_hash_mismatch = 1

\* one byte of the image of one picture was changed after export
OneImageByteChanged ==
    OneSlide /\ TheSlide \in OneShapeChanged(Exported, ShapeImageVariants)

\* left, top, width or height of one shape was changed by one unit
OneGeometryUnitChanged ==
    OneSlide /\ TheSlide \in OneShapeChanged(Exported, ShapeGeometryVariants)

\* C17: changing one byte of the image of a picture on the slide, or one of
\* left, top, width, height of a shape by one unit, changes the slide
\* signature.
C17_ImageAndGeometrySensitive ==
    (OneImageByteChanged \/ OneGeometryUnitChanged) => SignatureChanged

(***************************************************************************)
(* csv_schema.py and slide_csv.py: the CSV readers and the fingerprint.    *)
(* A CSV file is the list of rows csv.reader yields, a row the list of its *)
(* fields.                                                                 *)
(***************************************************************************)
CSV_COLUMNS ==
    <<<<"s", "o", "u", "r", "c", "e", "_", "p", "p", "t", "x">>,
      <<"s", "o", "u", "r", "c", "e", "_", "s", "l",
        "i", "d", "e", "_", "i", "n", "d", "e", "x">>,
      <<"s", "l", "i", "d", "e", "_", "h", "a", "s", "h">>,
      <<"m", "a", "s", "t", "e", "r", "_", "n", "a", "m", "e">>,
      <<"l", "a", "y", "o", "u", "t", "_", "t", "y", "p", "e">>,
      <<"a", "s", "s", "e", "t", "_", "t", "y", "p", "e", "s">>,
      <<"t", "i", "t", "l", "e", "_", "t", "e", "x", "t">>,
      <<"b", "o", "d", "y", "_", "t", "e", "x", "t">>,
      <<"n", "o", "t", "e", "s", "_", "t", "e", "x", "t">>>>

slide_csv_CSV_COLUMNS ==
    <<<<"s", "o", "u", "r", "c", "e", "_", "p", "p", "t", "x">>,
      <<"s", "o", "u", "r", "c", "e", "_", "s", "l",
        "i", "d", "e", "_", "i", "n", "d", "e", "x">>,
      <<"s", "l", "i", "d", "e", "_", "u", "i", "d">>,
      <<"t", "i", "t", "l", "e", "_", "t", "e", "x", "t">>,
      <<"b", "o", "d", "y", "_", "t", "e", "x", "t">>,
      <<"n", "o", "t", "e", "s", "_", "t", "e", "x", "t">>,
      <<"l", "a", "y", "o", "u", "t", "_", "h", "i", "n", "t">>,
      <<"i", "m", "a", "g", "e", "_", "r", "e", "f", "s">>,
      <<"i", "m", "a", "g", "e", "_", "h", "a", "s", "h", "e", "s">>,
      <<"t", "e", "x", "t", "_", "h", "a", "s", "h">>,
      <<"s", "l", "i", "d", "e", "_", "f", "i",
        "n", "g", "e", "r", "p", "r", "i", "n", "t">>>>

LIST_DELIMITER == "|"

\* None, as the key and the value csv.DictReader uses for fields without a
\* column and columns without a field
None == <<"None">>

\* the outcome of a reader: the exception raised, "" for none, and the rows
\* returned
Returned(rows) == [raised |-> "", rows |-> rows]
Raised(exception) == [raised |-> exception, rows |-> <<>>]

\* dict(zip(columns, row)) for a row of as many fields as columns
ZipRow(columns, row) ==
    [column \in {columns[k] : k \in 1..Len(columns)} |->
        row[CHOOSE k \in 1..Len(columns) : columns[k] = column]]

\* validate_headers of both modules: TRUE when ValueError is raised
validate_headers(headers, columns) == headers # columns

RECURSIVE read_rows(_, _, _)
\* the loop of csv_schema.read_slide_csv from row i on
read_rows(file, i, rows) ==
    IF i > Len(file) THEN Returned(rows)
    ELSE LET row == file[i]
             normalized == [k \in 1..Len(row) |-> Strip(row[k], Whitespace)]
         IN IF row = <<>> THEN read_rows(file, i + 1, rows)
            ELSE IF \A k \in 1..Len(row) : normalized[k] = <<>>
            THEN read_rows(file, i + 1, rows)
            ELSE IF normalized = CSV_COLUMNS
            THEN read_rows(file, i + 1, rows)
            ELSE IF Len(row) # Len(CSV_COLUMNS) THEN Raised("ValueError")
            ELSE read_rows(file, i + 1,
                           Append(rows, ZipRow(CSV_COLUMNS, row)))

\* csv_schema.read_slide_csv on an existing file
read_slide_csv(file) == read_rows(file, 1, <<>>)

\* one row of csv.DictReader: fields beyond the columns go under the key
\* None, columns beyond the fields get the value None
DictRow(fieldnames, row) ==
    [key \in {fieldnames[k] : k \in 1..Len(fieldnames)}
               \cup (IF Len(row) > Len(fieldnames) THEN {None} ELSE {}) |->
        IF key = None THEN SubSeq(row, Len(fieldnames) + 1, Len(row))
        ELSE LET k == CHOOSE k \in 1..Len(fieldnames) : fieldnames[k] = key
             IN IF k <= Len(row) THEN row[k] ELSE None]

\* slide_csv.read_slide_csv on an existing file
slide_csv_read_slide_csv(file) ==
    LET headers == IF file = <<>> THEN <<>> ELSE file[1]
        records == SelectSeq(Tail(file), LAMBDA row : row # <<>>)
    IN IF validate_headers(headers, slide_csv_CSV_COLUMNS)
       THEN Raised("ValueError")
       ELSE Returned([k \in 1..Len(records) |-> DictRow(headers, records[k])])

\* slide_csv.join_list_field
join_list_field(items) ==
    IF items = <<>> THEN <<>>
    ELSE Flatten([k \in 1..Len(items) |->
                     IF k = 1 THEN items[k]
                     ELSE <<LIST_DELIMITER>> \o items[k]])

\* slide_csv.hash_text: sha256(value).hexdigest(), the whole digest, as an
\* injective digest
hash_text(value) == <<"$">> \o value

\* slide_csv.compute_text_hash
slide_csv_compute_text_hash(title_text, body_text, notes) ==
    LET parts == <<normalize_text(title_text), normalize_text(body_text),
                   normalize_text(notes)>>
    IN hash_text(JoinWith(parts, NL))

compute_slide_fingerprint(title_text, body_text, notes, image_hashes) ==
    LET text_hash == slide_csv_compute_text_hash(title_text, body_text, notes)
        joined_images == join_list_field(image_hashes)
    IN hash_text(text_hash \o <<NL>> \o joined_images)

\* slide_csv.compute_slide_uid without the source name and slide index
compute_slide_uid_of_content(source_pptx, slide_index, title_text, body_text, notes, image_hashes) ==
    LET text_hash == slide_csv_compute_text_hash(title_text, body_text, notes)
        joined_images == join_list_field(image_hashes)
    IN hash_text(text_hash \o <<":">> \o joined_images)

\* slide_csv.compute_slide_uid
compute_slide_uid(source_pptx, slide_index, title_text, body_text, notes, image_hashes) ==
    LET text_hash == slide_csv_compute_text_hash(title_text, body_text, notes)
        joined_images == join_list_field(image_hashes)
        key == source_pptx \o <<":">> \o IntRepr(slide_index) \o <<":">>
                   \o text_hash \o <<":">> \o joined_images
    IN hash_text(key)

\* extract_slides.build_slide_row
build_slide_row(source_name, slide_index, title_text, body_text, notes, layout_hint, image_refs, image_hashes) ==
    [source_pptx |-> source_name,
     source_slide_index |-> IntRepr(slide_index),
     slide_uid |-> compute_slide_uid(source_name, slide_index, title_text,
                                     body_text, notes, image_hashes),
     title_text |-> title_text,
     body_text |-> body_text,
     notes_text |-> notes,
     layout_hint |-> layout_hint,
     image_refs |-> join_list_field(image_refs),
     image_hashes |-> join_list_field(image_hashes),
     text_hash |-> slide_csv_compute_text_hash(title_text, body_text, notes),
     slide_fingerprint |-> compute_slide_fingerprint(title_text, body_text,
                                                     notes, image_hashes)]

(***************************************************************************)
(* The pure helpers called on their own: normalize_text and the text hash  *)
(* on a text and an edited copy of it, the two CSV readers on small files, *)
(* compute_slide_fingerprint on two slides.                                *)
(***************************************************************************)
MaxTextLen == 4

TextChars == {"a", SP, TAB, NL, CR, "U+000B"}

CallTexts == UNION {[1..n -> TextChars] : n \in 0..MaxTextLen}

LineBreaks == {NL, CR}

\* text with piece inserted after its first p characters
InsertAt(text, p, piece) ==
    SubSeq(text, 1, p) \o piece \o SubSeq(text, p + 1, Len(text))

\* text with its character p replaced by piece
ReplaceAt(text, p, piece) ==
    SubSeq(text, 1, p - 1) \o piece \o SubSeq(text, p + 1, Len(text))

\* the first p characters end between the \r and the \n of one \r\n
InsideCrLf(text, p) ==
    p >= 1 /\ p < Len(text) /\ text[p] = CR /\ text[p + 1] = NL

\* a line ends after the first p characters
EndOfLine(text, p) ==
    /\ IF p = Len(text) THEN TRUE ELSE text[p + 1] \in LineBreaks
    /\ ~InsideCrLf(text, p)

\* a line starts after the first p characters
StartOfLine(text, p) ==
    /\ IF p = 0 THEN TRUE ELSE text[p] \in LineBreaks
    /\ ~InsideCrLf(text, p)

\* the line that starts after the first p characters has a character that
\* is not whitespace
KeptLineAt(text, p) ==
    \E k \in (p + 1)..Len(text) :
        /\ text[k] \notin Whitespace
        /\ \A j \in (p + 1)..k : text[j] \notin LineBreaks

\* character p is whitespace between two characters of the same line that
\* are not whitespace
InternalSpaceAt(text, p) ==
    /\ text[p] \in {SP, TAB}
    /\ \E i \in 1..(p - 1) :
          /\ text[i] \notin Whitespace
          /\ \A j \in i..p : text[j] \notin LineBreaks
    /\ \E k \in (p + 1)..Len(text) :
          /\ text[k] \notin Whitespace
          /\ \A j \in p..k : text[j] \notin LineBreaks

\* the other ways to write the line break at character p, <<>> when p is
\* not the first character of a line break
OtherLineEndings(text, p) ==
    LET crlf == InsideCrLf(text, p)
        after == IF crlf THEN p + 2 ELSE p + 1
        next_is_nl == after <= Len(text) /\ text[after] = NL
        prev_is_cr == p > 1 /\ text[p - 1] = CR
        written == IF crlf THEN <<CR, NL>> ELSE <<text[p]>>
        rest == SubSeq(text, after, Len(text))
    IN IF text[p] \notin LineBreaks \/ InsideCrLf(text, p - 1) THEN {}
       ELSE {SubSeq(text, 1, p - 1) \o ending \o rest :
                ending \in {e \in {<<NL>>, <<CR>>, <<CR, NL>>} :
                               /\ e # written
                               /\ e = <<CR>> => ~next_is_nl
                               /\ e = <<NL>> => ~prev_is_cr}}

\* a call of f on text one and on its copy two, edit telling how two was
\* made from one
TextCall(one, two, edit) ==
    [fn |-> "normalize_text", args |-> <<one, two, edit>>, result |-> <<>>]

CsvRow(columns) == [k \in 1..Len(columns) |-> <<"v">> \o IntRepr(k)]

\* the header rows tried: the columns, padded, two exchanged, one renamed,
\* one missing, one added
HeaderVariants(columns) ==
    {columns,
     [columns EXCEPT ![1] = <<SP>> \o @ \o <<SP>>],
     [columns EXCEPT ![4] = columns[5], ![5] = columns[4]],
     [columns EXCEPT ![2] = <<"s", "l", "i", "d", "e", "_", "n", "o">>],
     SubSeq(columns, 1, Len(columns) - 1),
     Append(columns, <<"e", "x", "t", "r", "a">>)}

\* files with each header, with and without records; records of fewer and
\* more fields; an empty row; no header at all
CsvFiles(columns) ==
    {<<header>> : header \in HeaderVariants(columns)}
    \cup {<<header, CsvRow(columns)>> : header \in HeaderVariants(columns)}
    \cup {<<columns, CsvRow(columns), <<>>, columns, CsvRow(columns)>>,
          <<columns, <<<<SP>>, <<>>>>, CsvRow(columns)>>,
          <<columns, SubSeq(CsvRow(columns), 1, 2)>>,
          <<columns, Append(CsvRow(columns), <<"x">>)>>,
          <<CsvRow(columns)>>}

FingerprintSlides ==
    [title_text : {<<>>, <<"a">>, <<"a", NL, "b">>, <<"a", SP>>},
     body_text : {<<>>, <<"b">>, <<"b", NL, "c">>, <<"c">>},
     notes_text : {<<>>, <<"n">>},
     image_hashes : {<<>>, <<Hash_h1>>, <<Hash_h1, Hash_h2>>,
                     <<Hash_h2, Hash_h1>>}]

(***************************************************************************)
(* remove_duplicate_slides_from_csv.py                                     *)
(***************************************************************************)
\* (row.get(hash_column) or "").strip()
hash_value_of(row) ==
    IF "slide_hash" \notin DOMAIN row THEN <<>>
    ELSE IF row.slide_hash = None THEN <<>>
    ELSE Strip(row.slide_hash, Whitespace)

\* the positions of the rows whose hash value is blank
blank_indices(rows) ==
    {idx \in 1..Len(rows) : hash_value_of(rows[idx]) = <<>>}

RECURSIVE hash_keys(_, _)
\* the keys of indices_by_hash in insertion order, from position idx on
hash_keys(rows, idx) ==
    IF idx > Len(rows) THEN <<>>
    ELSE LET hash_value == hash_value_of(rows[idx])
             seen == \E j \in 1..(idx - 1) :
                         hash_value_of(rows[j]) = hash_value
         IN (IF hash_value = <<>> \/ seen THEN <<>> ELSE <<hash_value>>)
                \o hash_keys(rows, idx + 1)

RECURSIVE indices_of(_, _, _)
\* indices_by_hash[hash_value], in row order, from position idx on
indices_of(rows, hash_value, idx) ==
    IF idx > Len(rows) THEN <<>>
    ELSE (IF hash_value_of(rows[idx]) = hash_value THEN <<idx>> ELSE <<>>)
             \o indices_of(rows, hash_value, idx + 1)

\* rng.choice(indices) for the next number the generator draws
rng_choice(draw, indices) == indices[(draw % Len(indices)) + 1]

RECURSIVE choose_indices(_, _, _)
\* the second loop of dedupe_rows_random_choice over the keys: the indices
\* kept and the count removed; rng is the sequence of numbers still to be
\* drawn
choose_indices(rows, keys, rng) ==
    IF keys = <<>> THEN [keep |-> {}, removed |-> 0]
    ELSE LET indices == indices_of(rows, keys[1], 1)
         IN IF Len(indices) = 1
            THEN LET rest == choose_indices(rows, Tail(keys), rng)
                 IN [keep |-> {indices[1]} \cup rest.keep,
                     removed |-> rest.removed]
            ELSE LET chosen == rng_choice(rng[1], indices)
                     rest == choose_indices(rows, Tail(keys), Tail(rng))
                 IN [keep |-> {chosen} \cup rest.keep,
                     removed |-> (Len(indices) - 1) + rest.removed]

RECURSIVE rows_at(_, _, _)
\* [row for idx, row in enumerate(rows) if idx in keep_indices]
rows_at(rows, keep_indices, idx) ==
    IF idx > Len(rows) THEN <<>>
    ELSE (IF idx \in keep_indices THEN <<rows[idx]>> ELSE <<>>)
             \o rows_at(rows, keep_indices, idx + 1)

\* dedupe_rows_random_choice that drops the rows without a hash
dedupe_rows_dropping_blank(rows, rng) ==
    LET chosen == choose_indices(rows, hash_keys(rows, 1), rng)
    IN <<rows_at(rows, chosen.keep, 1), chosen.removed>>

\* remove_duplicate_slides_from_csv.dedupe_rows_random_choice with
\* hash_column "slide_hash"
dedupe_rows_random_choice(rows, rng) ==
    LET chosen == choose_indices(rows, hash_keys(rows, 1), rng)
        keep_indices == blank_indices(rows) \cup chosen.keep
    IN <<rows_at(rows, keep_indices, 1), chosen.removed>>

\* hash values of the rows of a CSV: two hashes, one of them once with a
\* trailing space, a blank one, and None, the value csv.DictReader gives a
\* row that ends before the column
DedupeHashes == {<<"a">>, <<"b">>, <<"a", SP>>, <<SP>>, None}

DedupeRowLists ==
    UNION {{[k \in 1..n |-> [slide_hash |-> hashes[k],
                             source_slide_index |-> IntRepr(k)]] :
               hashes \in [1..n -> DedupeHashes]} : n \in 0..MaxRows}

\* the numbers a seeded generator delivers, in the order they are asked
\* for: as many as a call on MaxRows + 1 rows can ask for
Generators == [1..((MaxRows + 1) \div 2) -> 0..(MaxRows - 1)]

\* what extract_slides read of a slide
ExtractedSlides ==
    [source : {<<"a", ".", "p", "p", "t", "x">>, <<"b", ".", "p", "p", "t", "x">>},
     index : {1, 2},
     title_text : {<<"a">>, <<"a", SP>>},
     body_text : {<<"b">>},
     notes_text : {<<>>},
     layout_hint : {<<"b", "l", "a", "n", "k">>},
     image_refs : {<<>>},
     image_hashes : {<<Hash_h1>>, <<Hash_h1, Hash_h2>>}]

ImageHashes == {Hash_h1, Hash_h2, Hash_h3}

RowOf(slide) ==
    build_slide_row(slide.source, slide.index, slide.title_text,
                    slide.body_text, slide.notes_text, slide.layout_hint,
                    slide.image_refs, slide.image_hashes)

InitCalls ==
    /\ src = <<>>
    /\ input = <<>>
    /\ include_notes = FALSE
    /\ include_subtitle = FALSE
    /\ include_footer = FALSE
    /\ payload = write_yaml(src, Path_pptx, include_notes, include_subtitle,
                            include_footer)
    /\ RunNotStarted
    /\ \/ \E text \in CallTexts : call = TextCall(text, text, "none")
       \/ \E file \in CsvFiles(CSV_COLUMNS) :
             call = [fn |-> "csv_schema.read_slide_csv", args |-> <<file>>,
                     result |-> <<>>]
       \/ \E file \in CsvFiles(slide_csv_CSV_COLUMNS) :
             call = [fn |-> "slide_csv.read_slide_csv", args |-> <<file>>,
                     result |-> <<>>]
       \/ \E one, two \in FingerprintSlides :
             call = [fn |-> "compute_slide_fingerprint",
                     args |-> <<one, two>>, result |-> <<>>]
       \/ \E rows \in DedupeRowLists, rng \in Generators :
             call = [fn |-> "dedupe_rows_random_choice",
                     args |-> <<rows, rng>>, result |-> <<>>]
       \/ \E one, two \in ExtractedSlides :
             call = [fn |-> "build_slide_row",
                     args |-> <<<<one, two>>, 0>>, result |-> <<>>]

OnlyCallChanges ==
    UNCHANGED <<input, doc, payload, paths, force, include_subtitle,
                include_footer, pc, patch_i, box_i, locals, counters,
                output, saves, run, first_output, first_counters, src,
                include_notes,
                edits>>

\* the text has not been edited and normalize_text not been called
Unedited ==
    /\ call.fn = "normalize_text"
    /\ call.result = <<>>
    /\ call.args[3] = "none"

EditText(two, edit) ==
    /\ call' = TextCall(call.args[1], two, edit)
    /\ OnlyCallChanges

\* a line that is empty or holds one whitespace character is added
InsertBlankLine ==
    /\ Unedited
    /\ \E p \in 0..Len(call.args[1]), blank \in {<<>>, <<SP>>, <<TAB>>} :
          /\ EndOfLine(call.args[1], p)
          /\ EditText(InsertAt(call.args[1], p, <<NL>> \o blank),
                      "blank_line")

\* a whitespace character is added to the end of a line
AppendTrailingSpace ==
    /\ Unedited
    /\ \E p \in 0..Len(call.args[1]), space \in {SP, TAB} :
          /\ EndOfLine(call.args[1], p)
          /\ EditText(InsertAt(call.args[1], p, <<space>>), "trailing_space")

\* one line break is written in another convention
ChangeLineEnding ==
    /\ Unedited
    /\ \E p \in 1..Len(call.args[1]) :
          \E two \in OtherLineEndings(call.args[1], p) :
              EditText(two, "line_ending")

\* a whitespace character is added to, or put in place of, whitespace
\* between two words of a line
WidenSpacing ==
    /\ Unedited
    /\ \E p \in 1..Len(call.args[1]), space \in {SP, TAB} :
          /\ InternalSpaceAt(call.args[1], p)
          /\ \/ EditText(InsertAt(call.args[1], p, <<space>>), "spacing")
             \/ /\ space # call.args[1][p]
                /\ EditText(ReplaceAt(call.args[1], p, <<space>>), "spacing")

\* a tab is put in front of a line that is kept
IndentLine ==
    /\ Unedited
    /\ \E p \in 0..Len(call.args[1]) :
          /\ StartOfLine(call.args[1], p)
          /\ KeptLineAt(call.args[1], p)
          /\ EditText(InsertAt(call.args[1], p, <<TAB>>), "indent")

\* normalize_text and compute_text_hash on both texts
CallNormalizeText ==
    /\ call.fn = "normalize_text"
    /\ call.result = <<>>
    /\ call' = [call EXCEPT !.result =
                   <<normalize_text(call.args[1]),
                     normalize_text(call.args[2]),
                     compute_text_hash(call.args[1]),
                     compute_text_hash(call.args[2])>>]
    /\ OnlyCallChanges

CallReadSlideCsv ==
    /\ call.fn = "csv_schema.read_slide_csv"
    /\ call.result = <<>>
    /\ call' = [call EXCEPT !.result = <<read_slide_csv(call.args[1])>>]
    /\ OnlyCallChanges

CallSlideCsvReadSlideCsv ==
    /\ call.fn = "slide_csv.read_slide_csv"
    /\ call.result = <<>>
    /\ call' = [call EXCEPT !.result =
                   <<slide_csv_read_slide_csv(call.args[1])>>]
    /\ OnlyCallChanges

\* compute_slide_fingerprint on both slides
CallComputeSlideFingerprint ==
    /\ call.fn = "compute_slide_fingerprint"
    /\ call.result = <<>>
    /\ call' = [call EXCEPT !.result =
                   <<compute_slide_fingerprint(
                         call.args[1].title_text, call.args[1].body_text,
                         call.args[1].notes_text, call.args[1].image_hashes),
                     compute_slide_fingerprint(
                         call.args[2].title_text, call.args[2].body_text,
                         call.args[2].notes_text, call.args[2].image_hashes)>>]
    /\ OnlyCallChanges

\* build_slide_row for the two slides of a merged CSV: result holds the
\* rows, and after them the rows as they were before an image changed
CallBuildSlideRow ==
    /\ call.fn = "build_slide_row"
    /\ call.result = <<>>
    /\ call' = [call EXCEPT !.result =
                   <<[k \in 1..Len(call.args[1]) |-> RowOf(call.args[1][k])],
                     <<>>>>]
    /\ OnlyCallChanges

\* one image hash of one slide changes and the row of that slide is built
\* again
ChangeImageHash ==
    /\ call.fn = "build_slide_row"
    /\ call.result # <<>>
    /\ call.args[2] = 0
    /\ \E k \in 1..Len(call.args[1]) :
          \E i \in 1..Len(call.args[1][k].image_hashes) :
              \E h \in ImageHashes \ {call.args[1][k].image_hashes[i]} :
                  LET slide == [call.args[1][k] EXCEPT !.image_hashes[i] = h]
                  IN call' = [call EXCEPT
                         !.args = <<[call.args[1] EXCEPT ![k] = slide], k>>,
                         !.result = <<[call.result[1] EXCEPT
                                          ![k] = RowOf(slide)],
                                      call.result[1]>>]
    /\ OnlyCallChanges

\* dedupe_rows_random_choice(rows, "slide_hash", rng) called twice on the
\* same rows, with two generators made independently of each other
\* (random.Random(seed) for any two seeds): result holds the first return
\* value, the generator of the second call and the second return value
CallDedupeRowsRandomChoice ==
    /\ call.fn = "dedupe_rows_random_choice"
    /\ call.result = <<>>
    /\ \E rng_two \in Generators :
          call' = [call EXCEPT !.result =
                     <<dedupe_rows_random_choice(call.args[1], call.args[2]),
                       rng_two,
                       dedupe_rows_random_choice(call.args[1], rng_two)>>]
    /\ OnlyCallChanges

NextCalls ==
    \/ InsertBlankLine
    \/ AppendTrailingSpace
    \/ ChangeLineEnding
    \/ WidenSpacing
    \/ IndentLine
    \/ CallNormalizeText
    \/ CallReadSlideCsv
    \/ CallSlideCsvReadSlideCsv
    \/ CallComputeSlideFingerprint
    \/ CallBuildSlideRow
    \/ ChangeImageHash
    \/ CallDedupeRowsRandomChoice

SpecCalls == InitCalls /\ [][NextCalls]_vars

RECURSIVE RawLines(_, _)
\* the lines of a text, read character by character: \n, \r and \r\n each
\* end the line read so far
RawLines(text, line) ==
    IF text = <<>> THEN <<line>>
    ELSE IF Head(text) = CR /\ Len(text) >= 2 /\ text[2] = NL
    THEN <<line>> \o RawLines(Tail(Tail(text)), <<>>)
    ELSE IF Head(text) \in {NL, CR}
    THEN <<line>> \o RawLines(Tail(text), <<>>)
    ELSE RawLines(Tail(text), Append(line, Head(text)))

RECURSIVE WordsOf(_, _)
\* the maximal runs of characters of a line that are not whitespace
WordsOf(line, word) ==
    LET finished == IF word = <<>> THEN <<>> ELSE <<word>>
    IN IF line = <<>> THEN finished
       ELSE IF Head(line) \in Whitespace
       THEN finished \o WordsOf(Tail(line), <<>>)
       ELSE WordsOf(Tail(line), Append(word, Head(line)))

RECURSIVE TabDepth(_)
\* the number of tabs a line starts with
TabDepth(line) ==
    IF line # <<>> /\ Head(line) = TAB THEN 1 + TabDepth(Tail(line)) ELSE 0

RECURSIVE Separated(_, _)
\* the parts, one separator between each two
Separated(parts, separator) ==
    IF Len(parts) = 0 THEN <<>>
    ELSE IF Len(parts) = 1 THEN parts[1]
    ELSE parts[1] \o <<separator>> \o Separated(Tail(parts), separator)

\* what the normal form of a text is to be: of every line with a word, as
\* many tabs as the line starts with and then its words, one space between
\* them; these lines joined by \n
NormalForm(text) ==
    LET lines == RawLines(text, <<>>)
        kept == SelectSeq(lines, LAMBDA line : WordsOf(line, <<>>) # <<>>)
    IN Separated([k \in 1..Len(kept) |->
                     [t \in 1..TabDepth(kept[k]) |-> TAB]
                         \o Separated(WordsOf(kept[k], <<>>), SP)],
                 NL)

NormalizeCalled == call.fn = "normalize_text" /\ call.result # <<>>

\* C18: normalize_text splits on \r\n, \r and \n, drops empty and
\* whitespace-only lines, removes trailing whitespace, puts one space for
\* every whitespace run inside the content of a line and keeps the leading
\* tabs of a kept line; so a text and its copy with a blank line added, a
\* trailing space added, a line break written otherwise or the spacing
\* between two words widened have the same text hash, and a text and its
\* copy with one more tab in front of a kept line have different hashes.
C18_NormalizeText ==
    NormalizeCalled =>
        /\ call.result[1] = NormalForm(call.args[1])
        /\ call.result[2] = NormalForm(call.args[2])
        /\ call.args[3] \in {"blank_line", "trailing_space", "line_ending",
                             "spacing"}
              => call.result[3] = call.result[4]
        /\ call.args[3] = "indent" => call.result[3] # call.result[4]

\* normalize_text was called on a text with a tab-indented line of two
\* words and on its copy with the spacing widened
C18_Witness ==
    /\ NormalizeCalled
    /\ call.args[3] = "spacing"
    /\ call.args[1] # call.args[2]
    /\ call.result[1] = <<TAB, "a", SP, "a">>
    /\ call.result[2] = call.result[1]

\* a CSV reader was called; the columns it expects
ReaderCalled ==
    /\ call.fn \in {"csv_schema.read_slide_csv", "slide_csv.read_slide_csv"}
    /\ call.result # <<>>

ExpectedColumns ==
    IF call.fn = "csv_schema.read_slide_csv" THEN CSV_COLUMNS
    ELSE slide_csv_CSV_COLUMNS

\* C19: reading a slide CSV whose header row (its first row) is not exactly
\* the expected column list in the expected order raises an error and
\* returns no rows.
C19_HeaderMismatchIsHardError ==
    (ReaderCalled /\ call.args[1][1] # ExpectedColumns) =>
        /\ call.result[1].raised = "ValueError"
        /\ call.result[1].rows = <<>>

FingerprintCalled ==
    call.fn = "compute_slide_fingerprint" /\ call.result # <<>>

\* the two slides have the same normalized title, body and notes and the
\* same list of image hashes
SameTextAndImages(one, two) ==
    /\ NormalForm(one.title_text) = NormalForm(two.title_text)
    /\ NormalForm(one.body_text) = NormalForm(two.body_text)
    /\ NormalForm(one.notes_text) = NormalForm(two.notes_text)
    /\ one.image_hashes = two.image_hashes

\* C20: compute_slide_fingerprint gives two slides the same value exactly
\* when their normalized title, body and notes texts and their ordered
\* lists of image hashes are the same.
C20_FingerprintSeparatesTextAndImages ==
    FingerprintCalled =>
        (call.result[1] = call.result[2]
            <=> SameTextAndImages(call.args[1], call.args[2]))

RowsBuilt == call.fn = "build_slide_row" /\ call.result # <<>>

MergedSlides == call.args[1]
MergedRows == call.result[1]
RowsBefore == call.result[2]

\* the two slides have the same title, body, notes and image hashes
IdenticalTextAndImages(one, two) ==
    /\ one.title_text = two.title_text
    /\ one.body_text = two.body_text
    /\ one.notes_text = two.notes_text
    /\ one.image_hashes = two.image_hashes

\* after one image hash of row k changed, the fingerprint and the UID of
\* row k changed and those of the other rows did not
ImageChangeIsLocal ==
    call.args[2] # 0 =>
        \A k \in 1..Len(MergedRows) :
            IF k = call.args[2]
            THEN /\ MergedRows[k].slide_fingerprint
                        # RowsBefore[k].slide_fingerprint
                 /\ MergedRows[k].slide_uid # RowsBefore[k].slide_uid
            ELSE MergedRows[k] = RowsBefore[k]

\* C21 as claimed: two rows of a merged CSV with identical text and images
\* have equal slide_fingerprint and equal slide_uid; changing one image
\* hash in one row changes that row's fingerprint and UID and no other
\* row's.
C21_EqualContentEqualFingerprintAndUid ==
    RowsBuilt =>
        /\ \A i, j \in 1..Len(MergedRows) :
              IdenticalTextAndImages(MergedSlides[i], MergedSlides[j]) =>
                  /\ MergedRows[i].slide_fingerprint
                         = MergedRows[j].slide_fingerprint
                  /\ MergedRows[i].slide_uid = MergedRows[j].slide_uid
        /\ ImageChangeIsLocal

\* C21 amended: two rows with identical text and images have equal
\* slide_fingerprint; their slide_uid are equal exactly when the rows also
\* name the same source deck and the same slide index. Changing one image
\* hash in one row changes that row's fingerprint and UID and no other
\* row's.
C21_EqualContentEqualFingerprint ==
    RowsBuilt =>
        /\ \A i, j \in 1..Len(MergedRows) :
              IdenticalTextAndImages(MergedSlides[i], MergedSlides[j]) =>
                  /\ MergedRows[i].slide_fingerprint
                         = MergedRows[j].slide_fingerprint
                  /\ MergedRows[i].slide_uid = MergedRows[j].slide_uid
                        <=> /\ MergedSlides[i].source = MergedSlides[j].source
                            /\ MergedSlides[i].index = MergedSlides[j].index
        /\ ImageChangeIsLocal

\* two rows from different decks had identical text and images, then an
\* image hash of the first changed
C21_Witness ==
    /\ RowsBuilt
    /\ call.args[2] = 1
    /\ MergedSlides[1].source # MergedSlides[2].source
    /\ RowsBefore[1].slide_fingerprint = RowsBefore[2].slide_fingerprint
    /\ MergedRows[1].slide_fingerprint # MergedRows[2].slide_fingerprint
    /\ MergedRows[2] = RowsBefore[2]

(***************************************************************************)
(* rebuild.py: a deck rebuilt from the rows of a merged CSV                *)
(***************************************************************************)
Layout_title_content ==
    <<"t", "i", "t", "l", "e", "_", "c", "o", "n", "t", "e", "n", "t">>
Layout_title_only == <<"t", "i", "t", "l", "e", "_", "o", "n", "l", "y">>
Layout_two_content ==
    <<"t", "w", "o", "_", "c", "o", "n", "t", "e", "n", "t">>
Layout_blank == <<"b", "l", "a", "n", "k">>
Layout_custom == <<"c", "u", "s", "t", "o", "m">>
Layout_title_slide ==
    <<"t", "i", "t", "l", "e", "_", "s", "l", "i", "d", "e">>
Layout_centered_text ==
    <<"c", "e", "n", "t", "e", "r", "e", "d", "_", "t", "e", "x", "t">>
\* layout types as a CSV may spell them
Layout_spelled_title_content ==
    <<"T", "i", "t", "l", "e", SP, "C", "o", "n", "t", "e", "n", "t">>

Name_deck_a == <<"a", ".", "p", "p", "t", "x">>
Name_deck_b == <<"b", ".", "p", "p", "t", "x">>
Name_deck_odp == <<"c", ".", "o", "d", "p">>
Name_template == <<"t", ".", "p", "p", "t", "x">>
Name_master == <<"O", "f", "f", "i", "c", "e", SP, "T", "h", "e", "m", "e">>

\* pptx.Presentation(source_path).slides, for an .odp source the slides of
\* the deck soffice converts it to
SourceSlides(source_pptx) ==
    IF source_pptx = Name_deck_a THEN <<SlideTitleBody>>
    ELSE <<SlideTitleOnly>>

AbsInt(n) == IF n < 0 THEN 0 - n ELSE n
MinOf(a, b) == IF a <= b THEN a ELSE b
MaxOf(a, b) == IF a >= b THEN a ELSE b

(***************************************************************************)
(* Layouts and slides of the presentation that is rebuilt                  *)
(*   shape         [is_placeholder, ph_type, idx, geom, has_text_frame,    *)
(*                  paragraphs, blob]; geom is <<left, top, width,         *)
(*                  height>> in EMU                                        *)
(*   layout        [name, shapes]                                          *)
(*   slide         [layout, shapes, notes]: layout is the position of the  *)
(*                  slide layout in slide_layouts                          *)
(*   presentation  [slide_width, slide_height, master_name,                *)
(*                  slide_layouts, slides]                                 *)
(***************************************************************************)
LayoutPlaceholder(ph_type, idx, geom) ==
    [is_placeholder |-> TRUE, ph_type |-> ph_type, idx |-> idx,
     geom |-> geom, has_text_frame |-> TRUE, paragraphs |-> EmptyFrame,
     blob |-> <<>>]

\* a picture added by slide.shapes.add_picture
AddedPicture(geom, blob) ==
    [is_placeholder |-> FALSE, ph_type |-> "NONE", idx |-> 0 - 1,
     geom |-> geom, has_text_frame |-> FALSE, paragraphs |-> <<>>,
     blob |-> blob]

SlideLayout(name, shapes) == [name |-> name, shapes |-> shapes]

\* placeholders of the slide master of the default template
MasterTitleGeom == <<457200, 274638, 8229600, 1143000>>
MasterBodyGeom == <<457200, 1600200, 8229600, 4525963>>
MasterFooters ==
    <<LayoutPlaceholder("DATE", 10, <<457200, 6356350, 2133600, 365125>>),
      LayoutPlaceholder("FOOTER", 11, <<3124200, 6356350, 2895600, 365125>>),
      LayoutPlaceholder("SLIDE_NUMBER", 12,
                        <<6553200, 6356350, 2133600, 365125>>)>>

\* pptx.Presentation(): the default template of python-pptx, eleven slide
\* layouts of one unnamed slide master, no slide
DefaultPresentation ==
    [slide_width |-> 9144000, slide_height |-> 6858000,
     master_name |-> <<>>,
     slide_layouts |->
       <<SlideLayout(Chars("Title Slide"),
           <<LayoutPlaceholder("CENTER_TITLE", 0,
                               <<685800, 2130425, 7772400, 1470025>>),
             LayoutPlaceholder("SUBTITLE", 1,
                               <<1371600, 3886200, 6400800, 1752600>>)>>
           \o MasterFooters),
         SlideLayout(Chars("Title and Content"),
           <<LayoutPlaceholder("TITLE", 0, MasterTitleGeom),
             LayoutPlaceholder("OBJECT", 1, MasterBodyGeom)>>
           \o MasterFooters),
         SlideLayout(Chars("Section Header"),
           <<LayoutPlaceholder("TITLE", 0,
                               <<722313, 4406900, 7772400, 1362075>>),
             LayoutPlaceholder("BODY", 1,
                               <<722313, 2906713, 7772400, 1500187>>)>>
           \o MasterFooters),
         SlideLayout(Chars("Two Content"),
           <<LayoutPlaceholder("TITLE", 0, MasterTitleGeom),
             LayoutPlaceholder("OBJECT", 1,
                               <<457200, 1600200, 4038600, 4525963>>),
             LayoutPlaceholder("OBJECT", 2,
                               <<4648200, 1600200, 4038600, 4525963>>)>>
           \o MasterFooters),
         SlideLayout(Chars("Comparison"),
           <<LayoutPlaceholder("TITLE", 0, MasterTitleGeom),
             LayoutPlaceholder("BODY", 1,
                               <<457200, 1535113, 4040188, 639762>>),
             LayoutPlaceholder("OBJECT", 2,
                               <<457200, 2174875, 4040188, 3951288>>),
             LayoutPlaceholder("BODY", 3,
                               <<4645025, 1535113, 4041775, 639762>>),
             LayoutPlaceholder("OBJECT", 4,
                               <<4645025, 2174875, 4041775, 3951288>>)>>
           \o MasterFooters),
         SlideLayout(Chars("Title Only"),
           <<LayoutPlaceholder("TITLE", 0, MasterTitleGeom)>>
           \o MasterFooters),
         SlideLayout(Chars("Blank"), MasterFooters),
         SlideLayout(Chars("Content with Caption"),
           <<LayoutPlaceholder("TITLE", 0,
                               <<457200, 273050, 3008313, 1162050>>),
             LayoutPlaceholder("OBJECT", 1,
                               <<3575050, 273050, 5111750, 5853113>>),
             LayoutPlaceholder("BODY", 2,
                               <<457200, 1435100, 3008313, 4691063>>)>>
           \o MasterFooters),
         SlideLayout(Chars("Picture with Caption"),
           <<LayoutPlaceholder("TITLE", 0,
                               <<1792288, 4800600, 5486400, 566738>>),
             LayoutPlaceholder("PICTURE", 1,
                               <<1792288, 612775, 5486400, 4114800>>),
             LayoutPlaceholder("BODY", 2,
                               <<1792288, 5367338, 5486400, 804862>>)>>
           \o MasterFooters),
         SlideLayout(Chars("Title and Vertical Text"),
           <<LayoutPlaceholder("TITLE", 0, MasterTitleGeom),
             LayoutPlaceholder("BODY", 1, MasterBodyGeom)>>
           \o MasterFooters),
         SlideLayout(Chars("Vertical Title and Text"),
           <<LayoutPlaceholder("TITLE", 0,
                               <<6629400, 274638, 2057400, 5851525>>),
             LayoutPlaceholder("BODY", 1,
                               <<457200, 274638, 6019800, 5851525>>)>>
           \o MasterFooters)>>,
     slides |-> <<>>]

\* a template file: a named slide master with the layouts "Title and
\* Content", "Title Only" and "Blank", and one slide made from the first
TemplatePresentation ==
    [slide_width |-> 9144000, slide_height |-> 6858000,
     master_name |-> Name_master,
     slide_layouts |->
       <<SlideLayout(Chars("Title and Content"),
           <<LayoutPlaceholder("TITLE", 0, MasterTitleGeom),
             LayoutPlaceholder("BODY", 1, MasterBodyGeom)>>),
         SlideLayout(Chars("Title Only"),
           <<LayoutPlaceholder("TITLE", 0, MasterTitleGeom)>>),
         SlideLayout(Chars("Blank"), <<>>)>>,
     slides |->
       <<[layout |-> 1,
          shapes |-> <<LayoutPlaceholder("TITLE", 0, MasterTitleGeom),
                       LayoutPlaceholder("BODY", 1, MasterBodyGeom)>>,
          notes |-> NoNotes]>>]

\* pptx.Presentation(resolved_template), pptx.Presentation() without a
\* template
OpenTemplate(template_path) ==
    IF template_path = <<>> THEN DefaultPresentation
    ELSE TemplatePresentation

(***************************************************************************)
(* text_normalization.py, layout_classifier.py                             *)
(***************************************************************************)
\* text.replace(" ", "_")
ReplaceSpaces(s) == [i \in 1..Len(s) |-> IF s[i] = SP THEN "_" ELSE s[i]]

normalize_simple_name(value) ==
    IF value = <<>> THEN <<>>
    ELSE ReplaceSpaces(Lower(Strip(value, Whitespace)))

\* parse_tab_indented_lines: the (level, text) pairs as paragraphs
parse_tab_indented_lines(text_value, keep_blank_lines, strip_text) ==
    IF text_value = <<>> THEN <<>>
    ELSE LET raw == SplitOn(ReplaceLineEndings(text_value), NL)
             kept(raw_line) ==
                 IF raw_line = <<>> THEN keep_blank_lines
                 ELSE keep_blank_lines \/ Strip(raw_line, Whitespace) # <<>>
             line(raw_line) ==
                 IF raw_line = <<>> THEN Para(<<>>, 0)
                 ELSE LET text == LStrip(raw_line, {TAB})
                      IN Para(IF strip_text THEN Strip(text, Whitespace)
                              ELSE text,
                              LeadingCount(raw_line, {TAB}))
         IN [i \in 1..Len(SelectSeq(raw, kept)) |->
                line(SelectSeq(raw, kept)[i])]

RECURSIVE collect_placeholder_boxes(_)
collect_placeholder_boxes(shapes) ==
    IF shapes = <<>> THEN <<>>
    ELSE LET shape == Head(shapes)
             role == classify_placeholder_role(shape.ph_type)
         IN (IF ~shape.is_placeholder \/ role = "" THEN <<>>
             ELSE <<[role |-> role, left |-> shape.geom[1],
                     top |-> shape.geom[2], width |-> shape.geom[3],
                     height |-> shape.geom[4]]>>)
            \o collect_placeholder_boxes(Tail(shapes))

\* sorted(body_boxes, key=lambda box: box["left"]) for two boxes
SortedByLeft(body_boxes) ==
    IF body_boxes[2].left < body_boxes[1].left
    THEN <<body_boxes[2], body_boxes[1]>>
    ELSE body_boxes

\* twice center_diff_y of is_two_content_split
TwiceCenterDiffY(first, second) ==
    AbsInt((2 * first.top + first.height)
           - (2 * second.top + second.height))

\* is_two_content_split raises ZeroDivisionError: both widths are 0
two_content_split_raises(body_boxes, slide_width) ==
    /\ Len(body_boxes) = 2 /\ slide_width > 0
    /\ LET first == SortedByLeft(body_boxes)[1]
           second == SortedByLeft(body_boxes)[2]
           max_height == MaxOf(first.height, second.height)
       IN /\ max_height # 0
          /\ ~(5 * TwiceCenterDiffY(first, second) > 2 * max_height)
          /\ MaxOf(first.width, second.width) = 0

\* the comparisons with the factors 0.2 and 0.6 are made on integers: for
\* lengths in EMU the floating-point products and quotients compare as the
\* exact ones do
is_two_content_split(body_boxes, slide_width) ==
    IF Len(body_boxes) # 2 \/ slide_width <= 0 THEN FALSE
    ELSE LET first == SortedByLeft(body_boxes)[1]
             second == SortedByLeft(body_boxes)[2]
             left == first.left
             right == second.left
             max_height == MaxOf(first.height, second.height)
             min_width == MinOf(first.width, second.width)
             max_width == MaxOf(first.width, second.width)
             horizontal_overlap ==
                 MinOf(left + first.width, right + second.width)
                 - MaxOf(left, right)
         IN IF max_height = 0 THEN FALSE
            ELSE IF 5 * TwiceCenterDiffY(first, second) > 2 * max_height
            THEN FALSE
            ELSE IF 5 * min_width < 3 * max_width THEN FALSE
            ELSE IF 5 * horizontal_overlap > min_width THEN FALSE
            ELSE IF left > right THEN FALSE
            ELSE TRUE

\* the comparisons with the factors 0.1, 0.15 and 0.9 are made on integers
is_centered_box(box, slide_width, slide_height) ==
    IF slide_width <= 0 \/ slide_height <= 0 THEN FALSE
    ELSE IF 5 * AbsInt(2 * box.left + box.width - slide_width) > slide_width
    THEN FALSE
    ELSE IF 10 * AbsInt(2 * box.top + box.height - slide_height)
                > 3 * slide_height
    THEN FALSE
    ELSE IF 10 * box.width > 9 * slide_width THEN FALSE
    ELSE TRUE

Classified(layout_type, confidence, reason) ==
    [layout_type |-> layout_type, confidence |-> confidence,
     reasons |-> <<Chars(reason)>>]

\* classify_layout_type raises: is_two_content_split does
classify_layout_type_raises(shapes, slide_width, slide_height) ==
    LET placeholders == collect_placeholder_boxes(shapes)
        title_boxes == SelectSeq(placeholders, LAMBDA b : b.role = "title")
        body_boxes == SelectSeq(placeholders, LAMBDA b : b.role = "body")
    IN /\ title_boxes # <<>>
       /\ Len(body_boxes) = 2
       /\ two_content_split_raises(body_boxes, slide_width)

\* layout type, confidence and reasons of a slide or slide layout
classify_layout_type(shapes, slide_width, slide_height, title_text, body_text) ==
    LET placeholders == collect_placeholder_boxes(shapes)
        title_boxes == SelectSeq(placeholders, LAMBDA b : b.role = "title")
        subtitle_boxes ==
            SelectSeq(placeholders, LAMBDA b : b.role = "subtitle")
        body_boxes == SelectSeq(placeholders, LAMBDA b : b.role = "body")
    IN IF placeholders = <<>>
       THEN IF title_text # <<>> \/ body_text # <<>>
            THEN Classified(Layout_custom, "0.2", "text_without_placeholders")
            ELSE Classified(Layout_blank, "1.0", "no_placeholders_no_text")
       ELSE IF title_boxes # <<>> /\ subtitle_boxes # <<>>
                               /\ body_boxes = <<>>
       THEN Classified(Layout_title_slide, "1.0", "title_and_subtitle")
       ELSE IF title_boxes # <<>> /\ subtitle_boxes = <<>>
                               /\ body_boxes = <<>>
       THEN Classified(Layout_title_only, "0.9", "title_only")
       ELSE IF title_boxes # <<>> /\ Len(body_boxes) = 1
       THEN Classified(Layout_title_content, "0.9", "title_and_body")
       ELSE IF title_boxes # <<>> /\ Len(body_boxes) = 2
       THEN IF is_two_content_split(body_boxes, slide_width)
            THEN Classified(Layout_two_content, "0.9", "two_body_split")
            ELSE Classified(Layout_custom, "0.4", "two_body_not_split")
       ELSE IF title_boxes = <<>> /\ Len(body_boxes) = 1
                  /\ is_centered_box(body_boxes[1], slide_width, slide_height)
       THEN Classified(Layout_centered_text, "0.8", "centered_body")
       ELSE Classified(Layout_custom, "0.2", "unclassified")

(***************************************************************************)
(* rebuild.py                                                              *)
(***************************************************************************)
normalize_name(name) == normalize_simple_name(name)

\* normalize_name(...) or "custom"
NameOrCustom(name) ==
    IF normalize_name(name) = <<>> THEN Layout_custom
    ELSE normalize_name(name)

\* build_layout_map raises: the classification of some layout does
build_layout_map_raises(presentation) ==
    \E k \in 1..Len(presentation.slide_layouts) :
        classify_layout_type_raises(presentation.slide_layouts[k].shapes,
                                    presentation.slide_width,
                                    presentation.slide_height)

RECURSIVE layout_map_entries(_, _)
\* the for loop of build_layout_map over the layouts k.., the entries
\* [master_key, layout_type, layout] in the order they are inserted; the
\* layouts of presentation.slide_layouts belong to one slide master
layout_map_entries(presentation, k) ==
    IF k > Len(presentation.slide_layouts) THEN <<>>
    ELSE LET later == layout_map_entries(presentation, k + 1)
             layout_type ==
                 classify_layout_type(presentation.slide_layouts[k].shapes,
                                      presentation.slide_width,
                                      presentation.slide_height,
                                      <<>>, <<>>).layout_type
             master_key == NameOrCustom(presentation.master_name)
         IN <<[master_key |-> master_key, layout_type |-> layout_type,
               layout |-> k]>>
            \o SelectSeq(later, LAMBDA e : e.layout_type # layout_type)

\* the map master -> layout_type -> layout, as the sequence of its entries
build_layout_map(presentation) == layout_map_entries(presentation, 1)

\* the position of the selected layout in presentation.slide_layouts, 0
\* for ValueError("No slide layouts available in template.")
select_layout(presentation, layout_map, master_name, layout_type) ==
    LET target_master == NameOrCustom(master_name)
        target_layout == NameOrCustom(layout_type)
        master_layouts ==
            SelectSeq(layout_map, LAMBDA e : e.master_key = target_master)
        of_type(type) ==
            SelectSeq(master_layouts, LAMBDA e : e.layout_type = type)
    IN IF of_type(target_layout) # <<>>
       THEN of_type(target_layout)[1].layout
       ELSE IF of_type(Layout_custom) # <<>>
       THEN of_type(Layout_custom)[1].layout
       ELSE IF master_layouts # <<>> THEN master_layouts[1].layout
       ELSE IF presentation.slide_layouts # <<>> THEN 1
       ELSE 0

parse_body_lines(body_text) ==
    parse_tab_indented_lines(body_text, FALSE, TRUE)

\* presentation.slides.add_slide(layout): the placeholders of the layout
\* are cloned, apart from date, footer and slide number
add_slide(presentation, layout) ==
    [layout |-> layout,
     shapes |-> SelectSeq(presentation.slide_layouts[layout].shapes,
                    LAMBDA s : s.ph_type \notin
                                   {"DATE", "FOOTER", "SLIDE_NUMBER"}),
     notes |-> NoNotes]

\* slide.shapes.title: the position of the first placeholder with idx 0, 0
\* for None
title_of(slide) ==
    LET titles == {k \in 1..Len(slide.shapes) :
                      slide.shapes[k].is_placeholder
                      /\ slide.shapes[k].idx = 0}
    IN IF titles = {} THEN 0
       ELSE CHOOSE k \in titles : \A j \in titles : k <= j

\* text_frame.text = text: one paragraph for each line
text_frame_text(text) ==
    LET lines == SplitOn(text, NL)
    IN [i \in 1..Len(lines) |-> Para(lines[i], 0)]

set_title(slide, title_text) ==
    IF title_text = <<>> THEN slide
    ELSE IF title_of(slide) = 0 THEN slide
    ELSE IF ~slide.shapes[title_of(slide)].has_text_frame THEN slide
    ELSE [slide EXCEPT !.shapes[title_of(slide)].paragraphs =
                           text_frame_text(title_text)]

\* the position of the shape find_body_placeholder returns, 0 for None
find_body_placeholder(slide) ==
    LET bodies == {k \in 1..Len(slide.shapes) :
                      slide.shapes[k].is_placeholder
                      /\ slide.shapes[k].ph_type = "BODY"}
        frames == {k \in 1..Len(slide.shapes) :
                      slide.shapes[k].has_text_frame /\ k # title_of(slide)}
    IN IF bodies # {}
       THEN CHOOSE k \in bodies : \A j \in bodies : k <= j
       ELSE IF frames # {}
       THEN CHOOSE k \in frames : \A j \in frames : k <= j
       ELSE 0

\* set_body_text(slide, body_text) raises ValueError: the level of a line
\* is one paragraph.level refuses
set_body_text_raises(slide, body_text) ==
    LET body_shape == find_body_placeholder(slide)
    IN /\ body_shape # 0
       /\ slide.shapes[body_shape].has_text_frame
       /\ first_refused_level(parse_body_lines(body_text)) # 0

\* the slide after set_body_text(slide, body_text), as it is left when the
\* call raises; a shape without a text frame has a text_frame that is not
\* true
set_body_text(slide, body_text) ==
    LET lines == parse_body_lines(body_text)
        body_shape == find_body_placeholder(slide)
    IN IF lines = <<>> THEN slide
       ELSE IF body_shape = 0 THEN slide
       ELSE IF ~slide.shapes[body_shape].has_text_frame THEN slide
       ELSE [slide EXCEPT !.shapes[body_shape].paragraphs =
                written_paragraphs(@[1].level, lines,
                                   first_refused_level(lines))]

\* rebuild.set_notes_text; slide.notes_slide creates the notes slide when
\* there is none
rebuild_set_notes_text(slide, notes) ==
    IF notes = <<>> THEN slide
    ELSE IF slide.notes.state = "noframe"
    THEN slide
    ELSE [slide EXCEPT !.notes = NotesFrame(notes)]

\* rebuild.collect_source_images
RECURSIVE collect_source_images(_)
collect_source_images(shapes) ==
    IF shapes = <<>> THEN <<>>
    ELSE (IF shapes[1].shape_type # "PICTURE" THEN <<>>
          ELSE <<shapes[1].blob>>) \o collect_source_images(Tail(shapes))

\* pptx.util.Inches(0.5)
GridMargin == 457200

\* shape.image.size, the pixel width and height python-pptx reads from the
\* header of the image data. In the image data of the model the first
\* byte stands for the header: p for an image of 4 by 3 pixels, any other
\* byte for one of 3 by 4 pixels
image_size(blob) ==
    IF blob = <<>> THEN <<0, 0>>
    ELSE IF blob[1] = "p" THEN <<4, 3>>
    ELSE <<3, 4>>

RECURSIVE Log2Floor(_, _)
\* the exponent of the float nearest to num / den, for num, den > 0: the e
\* with 2^e <= num / den < 2^(e + 1)
Log2Floor(num, den) ==
    IF num \div 2 >= den THEN Log2Floor(num \div 2, den) + 1
    ELSE IF num < den THEN Log2Floor(2 * num, den) - 1
    ELSE 0

SignOf(n) == IF n > 0 THEN 1 ELSE IF n < 0 THEN 0 - 1 ELSE 0

RECURSIVE CompareFractions(_, _, _, _)
\* the sign of n1 / d1 - n2 / d2, by the continued fractions of the two
CompareFractions(n1, d1, n2, d2) ==
    IF n1 \div d1 # n2 \div d2 THEN SignOf(n1 \div d1 - n2 \div d2)
    ELSE IF n1 % d1 = 0 /\ n2 % d2 = 0 THEN 0
    ELSE IF n1 % d1 = 0 THEN 0 - 1
    ELSE IF n2 % d2 = 0 THEN 1
    ELSE 0 - CompareFractions(d1, n1 % d1, d2, n2 % d2)

RECURSIVE PowerMod(_, _)
\* 2^n modulo m
PowerMod(n, m) == IF n = 0 THEN 1 % m ELSE (2 * PowerMod(n - 1, m)) % m

\* the quotient of 2^n by m from the quotient and the remainder of
\* 2^(n - 1) by m, 2^30 when it is that or more
DoubledQuotient(quotient, remainder, m) ==
    IF quotient >= 536870912 THEN 1073741824
    ELSE 2 * quotient + (IF 2 * remainder >= m THEN 1 ELSE 0)

RECURSIVE PowerDiv(_, _)
\* the quotient of 2^n by m, 2^30 when it is that or more
PowerDiv(n, m) ==
    IF n = 0 THEN 1 \div m
    ELSE DoubledQuotient(PowerDiv(n - 1, m), PowerMod(n - 1, m), m)

\* the sign of x / y - 2^n / z
CompareToPower(x, y, n, z) ==
    IF x \div y # PowerDiv(n, z) THEN SignOf(x \div y - PowerDiv(n, z))
    ELSE IF x % y = 0 /\ PowerMod(n, z) = 0 THEN 0
    ELSE IF x % y = 0 THEN 0 - 1
    ELSE IF PowerMod(n, z) = 0 THEN 1
    ELSE 0 - CompareFractions(y, x % y, z, PowerMod(n, z))

RECURSIVE MulMod(_, _, _)
\* a * b modulo m, for a below m
MulMod(a, b, m) ==
    IF b = 0 THEN 0
    ELSE ((IF b % 2 = 1 THEN a ELSE 0)
              + MulMod((2 * a) % m, b \div 2, m)) % m

\* image_ratio = image_width / image_height is a float, a number of 53
\* binary digits: the quotient rounded to the nearest such number, an exact
\* half to the one with an even last digit. The float is
\* image_width / image_height + (t / image_height) * 2^(exp - 52); exp and
\* t are found from the remainder of the long division, and t = 0 when the
\* quotient is a float itself
image_ratio_error(image_width, image_height) ==
    LET exp == Log2Floor(image_width, image_height)
        twice == 2 * image_height
        rest == MulMod(image_width % twice,
                       PowerMod(52 - exp, twice), twice)
        odd == rest >= image_height
        rem == IF odd THEN rest - image_height ELSE rest
    IN [exp |-> exp,
        t |-> IF 2 * rem < image_height \/ (2 * rem = image_height /\ ~odd)
              THEN 0 - rem
              ELSE image_height - rem]

AbsOf(n) == IF n >= 0 THEN n ELSE 0 - n

\* round() of a float that is k + 1/2 exactly: the even one of k and k + 1
TieToEven(k) == IF k % 2 = 0 THEN k ELSE k + 1

\* int(round(box_height * image_ratio)), line 53: the product of floats is
\* the float nearest to the exact product. Away from a half the error of
\* image_ratio is too small to change the rounded integer. Where
\* box_height * image_width / image_height is k + 1/2, the product is that
\* float, or one above or below it when the error of image_ratio,
\* multiplied by box_height, is more than half the distance of the floats
\* next to k + 1/2: 2 * box_height * |t| > image_height * 2^(e - exp),
\* with e the exponent of k + 1/2
scaled_width(box_height, image_width, image_height) ==
    LET k == (box_height * image_width) \div image_height
        r == (box_height * image_width) % image_height
        error == image_ratio_error(image_width, image_height)
    IN IF r < image_height - r THEN k
       ELSE IF r > image_height - r THEN k + 1
       ELSE IF error.t = 0 THEN TieToEven(k)
       ELSE IF CompareToPower(2 * AbsOf(error.t), image_height,
                              Log2Floor(2 * k + 1, 2) - error.exp,
                              box_height) > 0
            THEN (IF error.t > 0 THEN k + 1 ELSE k)
            ELSE TieToEven(k)

\* the sign of (2 * k + 1) * |t| * 2^shift - image_width
quotient_moved(k, t, shift, image_width) ==
    IF shift < 0
    THEN CompareToPower(2 * k + 1, image_width, 0 - shift, AbsOf(t))
    ELSE IF 2 * k + 1 > 2147483647 \div AbsOf(t) THEN 1
    ELSE 0 - CompareToPower(image_width, (2 * k + 1) * AbsOf(t), shift, 1)

\* int(round(box_width / image_ratio)), line 56: the quotient of floats is
\* the float nearest to the exact quotient. Where
\* box_width * image_height / image_width is k + 1/2, the quotient is that
\* float, or one above it when image_ratio is far enough below
\* image_width / image_height, or one below it when it is far enough
\* above: (2 * k + 1) * |t| * 2^(exp - e) > image_width + t * 2^(exp - 52)
scaled_height(box_width, image_width, image_height) ==
    LET k == (box_width * image_height) \div image_width
        r == (box_width * image_height) % image_width
        error == image_ratio_error(image_width, image_height)
        moved == quotient_moved(k, error.t,
                                error.exp - Log2Floor(2 * k + 1, 2),
                                image_width)
    IN IF r < image_width - r THEN k
       ELSE IF r > image_width - r THEN k + 1
       ELSE IF error.t = 0 THEN TieToEven(k)
       ELSE IF moved > 0 \/ (moved = 0 /\ error.t < 0)
            THEN (IF error.t < 0 THEN k + 1 ELSE k)
            ELSE TieToEven(k)

\* int(n / 2): int() cuts the fraction off, towards zero
TruncHalf(n) == IF n >= 0 THEN n \div 2 ELSE 0 - ((0 - n) \div 2)

\* lines 57-64 of fit_picture_shape: <<>> where it returns False for a
\* width or height that is not positive; width and height are cut to the
\* box, and the picture is centred in it
centred_geometry(box_left, box_top, box_width, box_height, new_width, new_height) ==
    IF new_width <= 0 \/ new_height <= 0 THEN <<>>
    ELSE <<TruncHalf(2 * box_left + box_width
                         - MinOf(new_width, box_width)),
           TruncHalf(2 * box_top + box_height
                         - MinOf(new_height, box_height)),
           MinOf(new_width, box_width),
           MinOf(new_height, box_height)>>

\* the geometry fit_picture_shape gives a picture of image size <<w, h>>
\* pixels in the box, <<>> where it returns False before it sets one. Two
\* ratios that differ are different floats (numbers below 2^26), so the
\* ratios are compared as fractions
fitted_geometry(size, box_left, box_top, box_width, box_height) ==
    IF box_width <= 0 \/ box_height <= 0 THEN <<>>
    ELSE IF size[1] = 0 \/ size[2] = 0 THEN <<>>
    ELSE IF CompareFractions(box_width, box_height, size[1], size[2]) >= 0
    THEN centred_geometry(box_left, box_top, box_width, box_height,
                          scaled_width(box_height, size[1], size[2]),
                          box_height)
    ELSE centred_geometry(box_left, box_top, box_width, box_height,
                          box_width,
                          scaled_height(box_width, size[1], size[2]))

\* the shape with the geometry fitted, unchanged for <<>>
with_geometry(shape, fitted) ==
    IF fitted = <<>> THEN shape ELSE [shape EXCEPT !.geom = fitted]

\* the shape after image_utils.fit_picture_shape(shape, box_left, box_top,
\* box_width, box_height): a shape with an image is centred in the box,
\* as large as the box allows without stretching the image (the crop
\* settings it resets are not part of the model)
fit_picture_shape(shape, box_left, box_top, box_width, box_height) ==
    IF shape.blob = <<>> THEN shape
    ELSE with_geometry(shape,
                       fitted_geometry(image_size(shape.blob), box_left,
                                       box_top, box_width, box_height))

\* the pictures place_images_grid adds, each fitted into the cell of the
\* grid it is added to
place_images_grid(presentation, slide, image_blobs) ==
    IF image_blobs = <<>> THEN slide
    ELSE LET cols == IF Len(image_blobs) > 1 THEN 2 ELSE 1
             rows == (Len(image_blobs) + cols - 1) \div cols
             margin == GridMargin
             cell_width ==
                 (presentation.slide_width - margin * (cols + 1)) \div cols
             cell_height ==
                 (presentation.slide_height - margin * (rows + 1)) \div rows
             picture(index) ==
                 fit_picture_shape(
                     AddedPicture(
                         <<margin + (cell_width + margin) * (index % cols),
                           margin + (cell_height + margin) * (index \div cols),
                           cell_width, cell_height>>,
                         image_blobs[index + 1]),
                     margin + (cell_width + margin) * (index % cols),
                     margin + (cell_height + margin) * (index \div cols),
                     cell_width, cell_height)
         IN [slide EXCEPT !.shapes =
                @ \o [i \in 1..Len(image_blobs) |-> picture(i - 1)]]

\* the positions of the placeholders insert_images collects
picture_placeholders(slide) ==
    SelectSeq([k \in 1..Len(slide.shapes) |-> k],
              LAMBDA k : /\ slide.shapes[k].is_placeholder
                         /\ slide.shapes[k].ph_type \in
                                {"PICTURE", "OBJECT", "CONTENT"})

\* insert_images raises AttributeError: one image, and the first
\* placeholder collected is no picture placeholder and has no
\* insert_picture
insert_images_raises(slide, image_blobs) ==
    /\ Len(image_blobs) = 1
    /\ picture_placeholders(slide) # <<>>
    /\ slide.shapes[picture_placeholders(slide)[1]].ph_type # "PICTURE"

\* placeholder.insert_picture(stream): the picture that takes the place
\* of the placeholder, with its geometry
insert_picture(placeholder, blob) ==
    [placeholder EXCEPT !.has_text_frame = FALSE, !.paragraphs = <<>>,
                        !.blob = blob]

\* the slide after insert_images(slide, image_blobs) where it does not
\* raise: one image goes into the first placeholder collected and is
\* fitted into the box of the placeholder, otherwise the images are laid
\* out in a grid
insert_images(presentation, slide, image_blobs) ==
    IF image_blobs = <<>> THEN slide
    ELSE IF Len(image_blobs) = 1 /\ picture_placeholders(slide) # <<>>
    THEN [slide EXCEPT !.shapes[picture_placeholders(slide)[1]] =
             fit_picture_shape(insert_picture(@, image_blobs[1]),
                               @.geom[1], @.geom[2], @.geom[3], @.geom[4])]
    ELSE place_images_grid(presentation, slide, image_blobs)

RebuildRow(source_pptx, source_slide_index, slide_hash, layout_type, title_text) ==
    [source_pptx |-> source_pptx, source_slide_index |-> source_slide_index,
     slide_hash |-> slide_hash, layout_type |-> layout_type,
     master_name |-> <<>>, title_text |-> title_text,
     body_text |-> <<"b", NL, TAB, "c">>, notes_text |-> <<"n">>]

\* rows over the signatures of the first slides of two source decks
RebuildRowsOver(Hash_a, Hash_b) ==
    {RebuildRow(Name_deck_a, <<"1">>, Hash_a, Layout_title_content, <<"x">>),
     RebuildRow(Name_deck_b, <<"1">>, Hash_b, Layout_title_only, <<"y">>),
     RebuildRow(Name_deck_odp, <<"1">>, Hash_b, Layout_spelled_title_content,
                <<"y">>),
     RebuildRow(Name_deck_b, <<"1">>, Hash_b, Layout_two_content, <<>>),
     RebuildRow(Name_deck_a, <<"1">>, <<>>, Layout_title_content, <<"x">>),
     RebuildRow(Name_deck_a, <<"1">>, Hash_b, Layout_title_content, <<"x">>),
     RebuildRow(Name_deck_a, <<"0">>, Hash_a, Layout_title_content, <<"x">>),
     RebuildRow(Name_deck_a, <<"2">>, Hash_a, Layout_title_content, <<"x">>),
     RebuildRow(Name_deck_a, <<"x">>, Hash_a, Layout_title_content, <<"x">>),
     RebuildRow(Name_deck_a, <<"+", "1">>, Hash_a, Layout_title_content,
                <<"x">>),
     RebuildRow(Name_deck_a, <<"1">>, Hash_a, <<>>, <<"x">>)}

RebuildRows ==
    RebuildRowsOver(Signature(SourceSlides(Name_deck_a)[1]),
                    Signature(SourceSlides(Name_deck_b)[1]))

RowLists == UNION {[1..n -> RebuildRows] : n \in 0..MaxRows}

\* the names the module path_resolver defines
path_resolver == {"_list_subdirs", "_collect_matches", "resolve_path"}

\* the slide added for a row after add_slide and set_title
titled_slide(presentation, layout, row) ==
    set_title(add_slide(presentation, layout), row.title_text)

\* the slide added for a row after set_body_text and set_notes_text
slide_with_text(presentation, layout, row) ==
    rebuild_set_notes_text(
        set_body_text(titled_slide(presentation, layout, row),
                      row.body_text),
        row.notes_text)

\* the slide the loop body adds for a row: the layout selected, title,
\* body, notes and the images of the source slide
added_slide(presentation, layout, row, source_slide) ==
    insert_images(presentation, slide_with_text(presentation, layout, row),
                  collect_source_images(source_slide.shapes))

\* the loop body raised: the error, and in added the slide that
\* add_slide had put into the presentation before, as the loop body left it
RowRaised(error) == [raised |-> TRUE, error |-> Chars(error), added |-> <<>>]

RowRaisedAfter(error, slide) ==
    [raised |-> TRUE, error |-> Chars(error), added |-> <<slide>>]

\* the loop body from the layout selected for the row on
row_with_layout(row, presentation, layout, source_slide) ==
    IF layout = 0
    THEN RowRaised("No slide layouts available in template.")
    ELSE IF set_body_text_raises(titled_slide(presentation, layout, row),
                                 row.body_text)
    THEN RowRaisedAfter("ValueError",
             set_body_text(titled_slide(presentation, layout, row),
                           row.body_text))
    ELSE IF insert_images_raises(
                add_slide(presentation, layout),
                collect_source_images(source_slide.shapes))
    THEN RowRaisedAfter("AttributeError",
                        slide_with_text(presentation, layout, row))
    ELSE [raised |-> FALSE, error |-> <<>>,
          added |-> <<added_slide(presentation, layout, row, source_slide)>>]

\* the loop body from the source slide of the row on
row_from_slide(row, presentation, layout_map, source_slide) ==
    IF row.slide_hash = <<>>
    THEN RowRaised("slide_hash is missing")
    ELSE IF row.slide_hash # Signature(source_slide)
    THEN RowRaised("slide_hash mismatch")
    ELSE IF row.layout_type = <<>>
    THEN RowRaised("layout_type is missing")
    ELSE row_with_layout(row, presentation,
                         select_layout(presentation, layout_map,
                                       row.master_name, row.layout_type),
                         source_slide)

\* the loop body from the slide index of the row on
row_at_index(row, presentation, layout_map, slides, slide_index) ==
    IF slide_index < 1 \/ slide_index > Len(slides)
    THEN RowRaised("Source slide index out of range")
    ELSE row_from_slide(row, presentation, layout_map, slides[slide_index])

\* the loop body of rebuild_from_csv for one row: the error raised, or the
\* slide added to the presentation. The attribute resolve_source_path is
\* looked up in path_resolver first; the source deck is opened when it is
\* not in source_cache, an .odp source after its conversion by soffice
rebuild_row(row_index, row, presentation, layout_map, source_cache, soffice_ok) ==
    IF "resolve_source_path" \notin path_resolver
    THEN RowRaised("AttributeError")
    ELSE IF /\ row.source_pptx \notin source_cache
            /\ EndsWith(Lower(row.source_pptx), Ext_odp)
            /\ ~soffice_ok
    THEN RowRaised("soffice")
    ELSE IF ~IntOk(row.source_slide_index)
    THEN RowRaised("invalid literal for int()")
    ELSE row_at_index(row, presentation, layout_map,
                      SourceSlides(row.source_pptx),
                      IntValue(row.source_slide_index))

\* rebuild_from_csv up to the loop: rows read, presentation opened, layout
\* map built; slides holds presentation.slides
RebuildCall(rows, template_path, out_path) ==
    [fn |-> "rebuild_from_csv", args |-> <<rows, template_path, out_path>>,
     result |-> [pc |-> IF build_layout_map_raises(
                               OpenTemplate(template_path))
                        THEN "raised" ELSE "rows",
                 row_index |-> 1,
                 slides |-> OpenTemplate(template_path).slides,
                 source_cache |-> {},
                 error |-> <<>>, saved |-> <<>>]]

InitRebuild ==
    /\ src = <<>>
    /\ input = <<>>
    /\ include_notes = FALSE
    /\ include_subtitle = FALSE
    /\ include_footer = FALSE
    /\ payload = write_yaml(src, Path_pptx, include_notes, include_subtitle,
                            include_footer)
    /\ RunNotStarted
    /\ edits = 0
    /\ \E rows \in RowLists, template_path \in {<<>>, Name_template},
          out_path \in {Path_out_pptx, Path_out_odp} :
          call = RebuildCall(rows, template_path, out_path)

\* one pass of the loop over the rows
RebuildRowStep ==
    /\ call.fn = "rebuild_from_csv"
    /\ call.result.pc = "rows"
    /\ call.result.row_index <= Len(call.args[1])
    /\ \E soffice_ok \in BOOLEAN :
        \E row_index \in {call.result.row_index} :
        \E row \in {call.args[1][row_index]} :
        \E outcome \in {rebuild_row(
                row_index, row,
                [OpenTemplate(call.args[2]) EXCEPT
                    !.slides = call.result.slides],
                build_layout_map(OpenTemplate(call.args[2])),
                call.result.source_cache, soffice_ok)} :
           call' = [call EXCEPT !.result =
               IF outcome.raised
               THEN [@ EXCEPT !.pc = "raised", !.error = outcome.error,
                              !.slides = @ \o outcome.added]
               ELSE [@ EXCEPT !.row_index = row_index + 1,
                              !.source_cache = @ \cup {row.source_pptx},
                              !.slides = @ \o outcome.added]]
    /\ OnlyCallChanges

\* after the loop: presentation.save(output_path), or for an .odp output
\* presentation.save to a temporary file that soffice converts
RebuildSave ==
    /\ call.fn = "rebuild_from_csv"
    /\ call.result.pc = "rows"
    /\ call.result.row_index > Len(call.args[1])
    /\ \E soffice_ok \in BOOLEAN :
        call' = [call EXCEPT !.result =
            IF EndsWith(Lower(call.args[3]), Ext_odp) /\ ~soffice_ok
            THEN [@ EXCEPT !.pc = "raised", !.error = Chars("soffice")]
            ELSE [@ EXCEPT !.pc = "saved",
                           !.saved = <<call.result.slides>>]]
    /\ OnlyCallChanges

NextRebuild ==
    \/ RebuildRowStep
    \/ RebuildSave

SpecRebuild == InitRebuild /\ [][NextRebuild]_vars

RebuildFinished ==
    call.fn = "rebuild_from_csv" /\ call.result.pc \in {"raised", "saved"}

RebuildRowsGiven == call.args[1]

\* soffice failed to convert a deck
ConversionFailed == call.result.error = Chars("soffice")

\* the row's slide index is out of range (or no number), or its slide_hash
\* is missing or is not the signature of the slide it names
FailsHashGuard(row) ==
    \/ ~IntOk(row.source_slide_index)
    \/ LET slides == SourceSlides(row.source_pptx)
           n == IntValue(row.source_slide_index)
       IN IF n < 1 \/ n > Len(slides) THEN TRUE
          ELSE row.slide_hash = <<>> \/ row.slide_hash # Signature(slides[n])

FailingRows ==
    {k \in 1..Len(RebuildRowsGiven) : FailsHashGuard(RebuildRowsGiven[k])}

FirstOf(S) == CHOOSE k \in S : \A j \in S : k <= j

RaisedAtRow(k) ==
    /\ call.result.pc = "raised"
    /\ call.result.row_index = k
    /\ call.result.saved = <<>>

\* the slide of the output deck made from the row
SlideOfRow(row) ==
    added_slide(OpenTemplate(call.args[2]),
                select_layout(OpenTemplate(call.args[2]),
                              build_layout_map(OpenTemplate(call.args[2])),
                              row.master_name, row.layout_type),
                row,
                SourceSlides(row.source_pptx)
                    [IntValue(row.source_slide_index)])

\* the deck was written, and after the slides the template came with it
\* holds exactly one slide for each row, in row order
SavedOneSlidePerRow ==
    /\ call.result.pc = "saved"
    /\ call.result.saved =
           <<OpenTemplate(call.args[2]).slides
             \o [k \in 1..Len(RebuildRowsGiven) |->
                    SlideOfRow(RebuildRowsGiven[k])]>>

\* C22: rebuild_from_csv raises at the first row whose slide index is out
\* of range or whose slide_hash is missing or differs from the recomputed
\* signature, and writes no deck; when every row passes, the deck written
\* has exactly one slide per row (after the slides of the template), in
\* row order. Runs in which soffice fails to convert a deck are left aside.
C22_RebuildGuardedBySlideHash ==
    (RebuildFinished /\ ~ConversionFailed) =>
        IF FailingRows # {}
        THEN RaisedAtRow(FirstOf(FailingRows))
        ELSE SavedOneSlidePerRow

DedupeCalled ==
    call.fn = "dedupe_rows_random_choice" /\ call.result # <<>>

DedupeInput == call.args[1]
Deduped == call.result[1][1]
Removed == call.result[1][2]

\* the hash of a row as it is compared: without surrounding whitespace; a
\* row without a value for slide_hash has a blank hash
HashOf(row) ==
    IF row.slide_hash = None THEN <<>>
    ELSE Strip(row.slide_hash, Whitespace)

\* the positions of the input rows that are in the output
KeptPositions ==
    {k \in 1..Len(DedupeInput) :
        \E j \in 1..Len(Deduped) : Deduped[j] = DedupeInput[k]}

\* the output is the input without the rows that were not kept
InOriginalOrder ==
    /\ Len(Deduped) = Cardinality(KeptPositions)
    /\ \A i, j \in 1..Len(Deduped) :
          i < j =>
              \E k, l \in KeptPositions :
                  /\ k < l
                  /\ Deduped[i] = DedupeInput[k]
                  /\ Deduped[j] = DedupeInput[l]

\* the number of choices the call asks of its generator: one for each hash
\* that more than one row has
ChoicesMade ==
    Cardinality({HashOf(DedupeInput[k]) : k \in
        {i \in 1..Len(DedupeInput) :
            /\ HashOf(DedupeInput[i]) # <<>>
            /\ \E j \in 1..Len(DedupeInput) :
                  j # i /\ HashOf(DedupeInput[j]) = HashOf(DedupeInput[i])}})

\* the generators of the two calls deliver the same numbers to the choices
\* made, as two generators with the same seed do
SameDraws ==
    \A k \in 1..ChoicesMade : call.result[2][k] = call.args[2][k]

\* C23: for any rows and any random choice the output of
\* dedupe_rows_random_choice has exactly one row for each distinct non-blank
\* hash, has every row whose hash is blank, keeps the original relative
\* order, keeps every row whose hash is unique, and removed is the number
\* of input rows minus the number of output rows; a second call on the
\* same rows whose generator, made independently, delivers the same numbers
\* to the choices made (as one with the same seed does) keeps the same
\* rows: nothing but the rows and the numbers drawn decides what is kept.
C23_DedupeKeepsOnePerHash ==
    DedupeCalled =>
        /\ \A k \in 1..Len(DedupeInput) :
              HashOf(DedupeInput[k]) # <<>> =>
                  Cardinality({j \in 1..Len(Deduped) :
                      HashOf(Deduped[j]) = HashOf(DedupeInput[k])}) = 1
        /\ \A k \in 1..Len(DedupeInput) :
              HashOf(DedupeInput[k]) = <<>> => k \in KeptPositions
        /\ InOriginalOrder
        /\ \A k \in 1..Len(DedupeInput) :
              (\A j \in 1..Len(DedupeInput) :
                  j # k => HashOf(DedupeInput[j]) # HashOf(DedupeInput[k]))
                  => k \in KeptPositions
        /\ Removed = Len(DedupeInput) - Len(Deduped)
        /\ SameDraws => call.result[3] = call.result[1]

\* three rows, the first and the last with the same hash, the second
\* without one: the last and the blank row are kept, in this order, and so
\* they are by the second call, whose generator is another one that
\* delivers the same number to the one choice made
C23_Witness ==
    /\ DedupeCalled
    /\ Len(DedupeInput) = 3
    /\ HashOf(DedupeInput[1]) = HashOf(DedupeInput[3])
    /\ HashOf(DedupeInput[2]) = <<>>
    /\ Deduped = <<DedupeInput[2], DedupeInput[3]>>
    /\ Removed = 1
    /\ ChoicesMade = 1
    /\ SameDraws
    /\ call.result[2] # call.args[2]
    /\ call.result[3] = call.result[1]

(***************************************************************************)
(* What an apply run leaves alone                                          *)
(***************************************************************************)
\* the shape but for the paragraphs of its text frame
WithoutParagraphs(shape) == [shape EXCEPT !.paragraphs = <<>>]

\* the two slides have the same shapes in the same order, with the same
\* geometry, images, names and ids; paragraphs and notes may differ
SameButText(before, after) ==
    /\ Len(after.shapes) = Len(before.shapes)
    /\ \A k \in 1..Len(before.shapes) :
          WithoutParagraphs(after.shapes[k])
              = WithoutParagraphs(before.shapes[k])

\* the slides that some slide patch of the patch file names
NamedSlides(presentation) ==
    {slide_number_of(payload.patches[p], presentation) :
        p \in {q \in 1..Len(payload.patches) : payload.patches[q].is_dict}}

\* the finished run wrote a presentation that differs from its input in
\* text only, and only on slides named by a slide patch
OutputDiffersInTextOnly ==
    pc = "done" =>
        /\ Len(output[1]) = Len(input)
        /\ \A n \in 1..Len(input) :
              /\ SameButText(input[n], output[1][n])
              /\ n \notin NamedSlides(input) => output[1][n] = input[n]
        /\ updated = 0 => output[1] = input

\* this step of the loop over the box entries changes at most the
\* paragraphs of the one shape the entry names, or the notes for a notes
\* entry, and changes them only when it counts the entry as updated
BoxStepChangesOnlyUpdated ==
    pc = "box" =>
        LET n == slide_number_of(payload.patches[patch_i], doc)
        IN /\ \A m \in 1..Len(doc) : m # n => doc'[m] = doc[m]
           /\ Len(doc') = Len(doc)
           /\ SameButText(doc[n], doc'[n])
           /\ updated' = updated => doc' = doc
           /\ doc' # doc =>
                 /\ updated' = updated + 1
                 /\ IF CurrentBox.box_id = Str_notes
                    THEN doc'[n].shapes = doc[n].shapes
                    ELSE /\ doc'[n].notes = doc[n].notes
                         /\ \E b \in 1..Len(box_map) :
                               /\ box_map[b].box_id = CurrentBox.box_id
                               /\ \A k \in 1..Len(doc[n].shapes) :
                                     k # box_map[b].shape =>
                                         doc'[n].shapes[k] = doc[n].shapes[k]

\* outside the loop over the box entries the presentation in memory is
\* the one read from the input, and the output is the one in memory
OtherStepsChangeNothing ==
    /\ (pc # "box" /\ doc' # doc) => (pc = "load" /\ doc' = input)
    /\ output' # output => (output' = <<doc>> /\ doc' = doc)

\* C24: apply changes only the paragraphs (text and level) of the boxes it
\* counts as updated and the notes of an updated notes entry; shape order,
\* geometry and images of every shape, the text of every box not counted as
\* updated and every slide not named by a slide patch are the same after
\* the run as before it.
C24_ApplyChangesOnlyUpdatedBoxes ==
    /\ []OutputDiffersInTextOnly
    /\ [][BoxStepChangesOnlyUpdated /\ OtherStepsChangeNothing]_vars

\* a finished run over a slide with several shapes that counted one entry
\* as updated and one as a text-hash mismatch and changed the presentation
C24_Witness ==
    /\ pc = "done"
    /\ updated = 1
    /\ mismatched = 1
    /\ output[1] # input
    /\ \E n \in 1..Len(input) : Len(input[n].shapes) >= 2

(***************************************************************************)
(* Stability of the box ids                                                *)
(***************************************************************************)
\* the boxes collect_text_boxes finds on the slide with the flags of the
\* session: box id, position of the shape, shape name, placeholder type
BoxesOf(slide) ==
    collect_text_boxes(slide, include_subtitle, include_footer, TRUE).boxes

\* the box ids export recorded for the shapes of slide n of the exported
\* presentation, in order
ExportedShapeIds(n) ==
    LET records == export_slide(src[n], n, FALSE, include_subtitle,
                                include_footer)
    IN IF records = <<>> THEN <<>>
       ELSE [k \in 1..Len(records[1].boxes) |-> records[1].boxes[k].box_id]

\* C25: box ids do not depend on text. A presentation that differs from
\* the exported one in text only has, on every slide, the boxes with the
\* ids recorded at export for the same shapes; and during and after an
\* apply run the presentation in memory has on every slide the same
\* box_id-to-shape mapping as the input had.
C25_BoxIdsStable ==
    /\ \A n \in 1..Len(src) :
          (Len(input) = Len(src) /\ SameButText(src[n], input[n])) =>
              /\ BoxesOf(input[n]) = BoxesOf(src[n])
              /\ [k \in 1..Len(BoxesOf(input[n])) |->
                      BoxesOf(input[n])[k].box_id] = ExportedShapeIds(n)
    /\ doc # <<>> =>
          /\ Len(doc) = Len(input)
          /\ \A n \in 1..Len(doc) : BoxesOf(doc[n]) = BoxesOf(input[n])

\* a run changed the text of a box of a slide whose text another tool had
\* changed after the export
C25_Witness ==
    /\ pc = "done"
    /\ updated >= 1
    /\ output[1] # input
    /\ input # src
    /\ \E n \in 1..Len(input) : BoxesOf(output[1][n]) # <<>>

(***************************************************************************)
(* Relationships in the slide hash                                         *)
(***************************************************************************)
RelHashCalled ==
    /\ call.fn = "compute_slide_hash"
    /\ call.result # <<>>
    /\ call.args[3] # NoRels
    /\ call.args[4] # NoRels

\* the set of (type, content hash) tokens of a token list
TokenSet(rel_tokens) == {rel_tokens[k] : k \in 1..Len(rel_tokens)}

\* the two calls are made for the same slide with the same related parts:
\* the relationship ids may be assigned differently, and the relationships
\* listed in another order
SameUpToRelIds ==
    \E name \in {T_a, RelId_1}, image_hash \in {Hash_h1, Hash_h2} :
        \E ids1, ids2 \in {<<RelId_1, RelId_2>>, <<RelId_2, RelId_1>>} :
            /\ call.args[1] = XmlRelSlide(name, ids1[1], ids1[2])
            /\ call.args[2] = XmlRelSlide(name, ids2[1], ids2[2])
            /\ call.args[3].rel_hashes
                   = (ids1[1] :> image_hash) @@ (ids1[2] :> Hash_h3)
            /\ call.args[4].rel_hashes
                   = (ids2[1] :> image_hash) @@ (ids2[2] :> Hash_h3)
            /\ TokenSet(call.args[3].rel_tokens)
                   = TokenSet(call.args[4].rel_tokens)

\* C26: the slide hash depends on the set of relationships, not on the
\* assignment of relationship ids or on the order the relationships are
\* listed in: two calls of compute_slide_hash for the same slide that
\* differ in the relationship ids (rel_hashes mapping the ids of either to
\* the same content hashes) or in the order of the token list give the same
\* hash.
C26_RelationshipsAsSet ==
    (RelHashCalled /\ SameUpToRelIds) => call.result[1] = call.result[2]

\* with the tokens listed in the same order and no other attribute value
\* that reads like a relationship id, renumbering leaves the hash unchanged
RenumberingAlone ==
    (/\ RelHashCalled
     /\ SameUpToRelIds
     /\ call.args[3].rel_tokens = call.args[4].rel_tokens
     /\ \A name \in {RelId_1} : \A ids \in {<<RelId_1, RelId_2>>,
                                            <<RelId_2, RelId_1>>} :
            call.args[1] # XmlRelSlide(name, ids[1], ids[2]))
        => call.result[1] = call.result[2]

(***************************************************************************)
(* Entries and slide patches that repeat: a slide with title, body and     *)
(* speaker notes, exported with the notes; the patch file holds either     *)
(* several slide patches for the slide with one edited entry each, or one  *)
(* slide patch with several edited entries                                 *)
(***************************************************************************)
RepeatSlide ==
    Slide(<<TitleShape(T_a), BodyShape(<<Para(T_b, 0)>>)>>, NotesFrame(T_n))

RepeatExport == export_slide(RepeatSlide, 1, TRUE, FALSE, FALSE)[1]

\* the title entry and the notes entry, each with two edited texts; the
\* second text of the title has the normalized text of the exported title
RepeatEntries(export) ==
    {[export.boxes[1] EXCEPT !.text = t] : t \in {T_z, T_a_padded}}
    \cup {[export.boxes[3] EXCEPT !.text = t] : t \in {T_z, T_b}}

\* the patch lists over an exported slide patch and edited entries of it
RepeatPatchListsOf(export, edited) ==
    {[k \in 1..Len(entries) |-> [export EXCEPT !.boxes = <<entries[k]>>]] :
        entries \in SeqsUpTo(edited, MaxPatches)}
    \cup {<<[export EXCEPT !.boxes = entries]>> :
            entries \in SeqsUpTo(edited, MaxEntries) \ {<<>>}}

RepeatPatchLists ==
    RepeatPatchListsOf(RepeatExport, RepeatEntries(RepeatExport))

InitRepeat ==
    /\ input = <<RepeatSlide>>
    /\ src = <<RepeatSlide>>
    /\ include_notes = TRUE
    /\ include_subtitle = FALSE
    /\ include_footer = FALSE
    /\ \E patches \in RepeatPatchLists : payload = Payload(Path_pptx, patches)
    /\ doc = <<>>
    /\ force \in BOOLEAN
    /\ input_path = Path_pptx /\ output_path = Path_out_pptx
    /\ pc = "load"
    /\ patch_i = 0 /\ box_i = 0
    /\ notes_text = <<>> /\ box_map = <<>>
    /\ updated = 0 /\ skipped = 0 /\ missing = 0
    /\ mismatched = 0 /\ slide_hash_mismatch = 0
    /\ output = <<>> /\ saves = 0 /\ run = 1 /\ first_output = <<>>
    /\ first_counters = <<>>
    /\ edits = 0
    /\ call = NoCall

NextRepeat ==
    \/ LoadPatch
    \/ SlidePatchStep
    \/ BoxStep
    \/ Save
    \/ Reapply

SpecRepeat == InitRepeat /\ [][NextRepeat]_vars

\* the normalized text of every box of the slide and of its notes
NormalizedTexts(slide) ==
    [shapes |-> [k \in 1..Len(slide.shapes) |->
                    normalize_text(extract_text_block(slide.shapes[k]))],
     notes |-> normalize_text(extract_notes_text(slide))]

\* the run is at its second slide patch, which names the slide of the first
\* and carries its slide_hash, and the first has changed the normalized
\* text of a box or of the notes
SecondPatchAfterTextChange ==
    /\ pc = "patch"
    /\ patch_i = 2
    /\ patch_i <= Len(payload.patches)
    /\ payload.patches[1].slide_hash = payload.patches[2].slide_hash
    /\ slide_number_of(payload.patches[1], doc) # 0
    /\ slide_number_of(payload.patches[1], doc)
           = slide_number_of(payload.patches[2], doc)
    /\ LET n == slide_number_of(payload.patches[1], doc)
       IN NormalizedTexts(doc[n]) # NormalizedTexts(input[n])

\* C27: the signature is recomputed from the live document for every slide
\* patch: when the first of two slide patches for the same slide with the
\* same slide_hash has changed the normalized text of a box or of the
\* notes, the second is counted as a slide-hash mismatch and modifies
\* nothing, with or without force.
C27_SecondPatchSeesLiveSignature ==
    [][SecondPatchAfterTextChange =>
          /\ slide_hash_mismatch' = slide_hash_mismatch + 1
          /\ doc' = doc
          /\ pc' = "patch"
          /\ patch_i' = patch_i + 1
          /\ UNCHANGED <<updated, skipped, missing, mismatched, output>>]_vars

\* a forced run over two slide patches for the notes of one slide: the
\* first changed the notes, the second was left as a slide-hash mismatch
C27_Witness ==
    /\ pc = "done"
    /\ force
    /\ run = 1
    /\ Len(payload.patches) = 2
    /\ payload.patches[1].boxes[1].box_id = Str_notes
    /\ payload.patches[2].boxes[1].box_id = Str_notes
    /\ updated = 1
    /\ slide_hash_mismatch = 1
    /\ extract_notes_text(output[1][1]) = payload.patches[1].boxes[1].text

\* the normalized text the target of the current entry holds in the
\* slide: the notes for a notes entry, else the shape the box id names;
\* <<"no target">> when the box id names no box
TargetText(slide) ==
    IF CurrentBox.box_id = Str_notes
    THEN normalize_text(extract_notes_text(slide))
    ELSE IF box_map_get(box_map, CurrentBox.box_id) = 0
    THEN <<"no target">>
    ELSE normalize_text(extract_text_block(
             slide.shapes[box_map[box_map_get(box_map,
                                              CurrentBox.box_id)].shape]))

\* the entry being processed in an unforced run repeats the box id and the
\* text_hash_before of an earlier entry of the slide patch, and the
\* normalized text of the target is no longer the one the slide patch found
RepeatedEntryAfterTextChange ==
    /\ pc = "box"
    /\ ~force
    /\ CurrentBox.is_dict
    /\ \E j \in 1..(box_i - 1) :
          LET earlier == payload.patches[patch_i].boxes[j]
          IN /\ earlier.box_id = CurrentBox.box_id
             /\ earlier.text_hash_before = CurrentBox.text_hash_before
    /\ LET n == slide_number_of(payload.patches[patch_i], doc)
       IN TargetText(doc[n]) # TargetText(input[n])

\* C28: within one slide patch of an unforced apply the text hash of an
\* entry is compared with the text the target holds when the entry is
\* processed: after an entry has changed the normalized text of a target,
\* a later entry of the slide patch with the same box_id and the same
\* text_hash_before is counted as a text-hash mismatch and does not
\* overwrite the target, for shape boxes and for the notes alike.
C28_RepeatedEntrySeesLiveText ==
    [][RepeatedEntryAfterTextChange =>
          /\ mismatched' = mismatched + 1
          /\ doc' = doc
          /\ updated' = updated]_vars

\* the same for entries that name a shape box
C28_RepeatedShapeEntrySeesLiveText ==
    [][(RepeatedEntryAfterTextChange /\ CurrentBox.box_id # Str_notes) =>
          /\ mismatched' = mismatched + 1
          /\ doc' = doc
          /\ updated' = updated]_vars

(***************************************************************************)
(* The slide-level check and the box-level check on export data            *)
(***************************************************************************)
\* the slide patch export wrote for slide n, <<>> if it wrote none
ExportOfSlide(n) ==
    export_slide(src[n], n, include_notes, include_subtitle, include_footer)

\* the slide_hash and every text_hash_before of the current slide patch
\* are the ones of one export of the slide it names
HashesFromOneExport ==
    LET patch == payload.patches[patch_i]
        n == slide_number_of(patch, doc)
    IN /\ n # 0
       /\ n <= Len(src)
       /\ ExportOfSlide(n) # <<>>
       /\ patch.slide_hash = ExportOfSlide(n)[1].slide_hash
       /\ \A b \in 1..Len(patch.boxes) :
             patch.boxes[b].is_dict =>
                 \E k \in 1..Len(ExportOfSlide(n)[1].boxes) :
                     LET exported == ExportOfSlide(n)[1].boxes[k]
                     IN /\ exported.box_id = patch.boxes[b].box_id
                        /\ exported.text_hash_before
                               = patch.boxes[b].text_hash_before

\* the entry being processed is the first of the run for its target: no
\* earlier entry of the slide patch has its box id, and no earlier slide
\* patch names the slide
FirstEntryForTarget ==
    /\ \A j \in 1..(box_i - 1) :
          payload.patches[patch_i].boxes[j].box_id # CurrentBox.box_id
    /\ \A p \in 1..(patch_i - 1) :
          payload.patches[p].is_dict =>
              slide_number_of(payload.patches[p], doc)
                  # slide_number_of(payload.patches[patch_i], doc)

\* the entry is not counted as a text-hash mismatch
NoTextHashMismatch == mismatched' = mismatched

\* C29: for a slide patch whose slide_hash and text_hash_before values come
\* from one export of the slide, once the slide-hash check has passed, the
\* text-hash check of the first entry processed for each shape box and for
\* the notes passes too.
C29_SlideCheckSubsumesBoxCheck ==
    [][(pc = "box" /\ ~force /\ HashesFromOneExport /\ FirstEntryForTarget)
          => NoTextHashMismatch]_vars

\* no shape of the slide has the box id of the notes, neither in the document
\* the export read nor in the document being edited
NoShapeNamedNotes ==
    LET n == slide_number_of(payload.patches[patch_i], doc)
        exported == BoxesOf(src[n])
    IN /\ \A k \in 1..Len(box_map) : box_map[k].box_id # Str_notes
       /\ \A k \in 1..Len(exported) : exported[k].box_id # Str_notes

\* the shapes of the slide have the box ids the export recorded for them
BoxIdsAsExported ==
    LET n == slide_number_of(payload.patches[patch_i], doc)
        exported == BoxesOf(src[n])
    IN /\ Len(exported) = Len(box_map)
       /\ \A k \in 1..Len(box_map) :
             /\ box_map[k].box_id = exported[k].box_id
             /\ box_map[k].shape = exported[k].shape

\* the same for slides on which no shape has the box id of the notes and
\* every shape has kept the box id of the export
C29_SubsumesWhenBoxIdsKept ==
    [][(/\ pc = "box" /\ ~force /\ HashesFromOneExport /\ FirstEntryForTarget
        /\ NoShapeNamedNotes /\ BoxIdsAsExported)
          => NoTextHashMismatch]_vars

(***************************************************************************)
(* The exported patch file applied unedited to the exported presentation,  *)
(* and applied again to the output                                         *)
(***************************************************************************)
\* title with padded text; body with a blank paragraph, a whitespace
\* paragraph, paragraphs at levels 0, 1 and 5 and a paragraph that starts
\* with a tab; speaker notes
SlideRaggedBody ==
    Slide(<<TitleShape(T_a_padded),
            BodyShape(<<Para(T_b, 0), Para(<<>>, 0), Para(<<SP>>, 2),
                        Para(T_z, 5), Para(<<TAB, "y", SP>>, 1)>>),
            Picture>>, NotesFrame(T_n))

\* title and a body whose only paragraph is blank, at level 1
SlideBlankBody ==
    Slide(<<TitleShape(T_a), BodyShape(<<Para(<<SP>>, 1)>>)>>, NoNotes)

NoOpDocuments ==
    {<<slide>> : slide \in SignatureSlides
                          \cup {SlideRaggedBody, SlideBlankBody,
                                SlideNoNotesFrame, SlideTitleOnly}}
    \cup {<<SlideTitleOnly, SlideRaggedBody>>}

InitNoOp ==
    /\ src \in NoOpDocuments
    /\ input = src
    /\ include_notes \in BOOLEAN
    /\ include_subtitle \in BOOLEAN
    /\ include_footer \in BOOLEAN
    /\ payload = write_yaml(src, Path_pptx, include_notes, include_subtitle,
                            include_footer)
    /\ doc = <<>>
    /\ force = FALSE
    /\ input_path = Path_pptx /\ output_path = Path_out_pptx
    /\ pc = "load"
    /\ patch_i = 0 /\ box_i = 0
    /\ notes_text = <<>> /\ box_map = <<>>
    /\ updated = 0 /\ skipped = 0 /\ missing = 0
    /\ mismatched = 0 /\ slide_hash_mismatch = 0
    /\ output = <<>> /\ saves = 0 /\ run = 1 /\ first_output = <<>>
    /\ first_counters = <<>>
    /\ edits = 0
    /\ call = NoCall

NextNoOp ==
    \/ LoadPatch
    \/ SlidePatchStep
    \/ BoxStep
    \/ Save
    \/ Reapply

SpecNoOp == InitNoOp /\ [][NextNoOp]_vars

\* what the checks of apply read of a slide: its signature, the box ids
\* with the text hash of each box, the text hash of the notes
SlideIdentity(slide) ==
    [signature |-> compute_slide_hash_from_slide(slide,
                                                 extract_notes_text(slide)),
     boxes |-> [k \in 1..Len(BoxesOf(slide)) |->
                  <<BoxesOf(slide)[k].box_id,
                    compute_text_hash(extract_text_block(
                        slide.shapes[BoxesOf(slide)[k].shape]))>>],
     notes |-> compute_text_hash(extract_notes_text(slide))]

\* a finished unforced run of the unedited export on the presentation it
\* was exported from, or on the output of such a run
NoOpRun ==
    /\ pc = "done" /\ ~force /\ edits = 0
    /\ UneditedExport
    /\ output # <<>>

\* C30: applying an unedited exported patch, unforced, to the unmodified
\* document leaves the signature of every slide and the text hash of every
\* box and of the notes as they were before the apply, and a second
\* unforced apply of the same patch reports the counters of the first.
C30_NoOpApplyPreservesIdentity ==
    NoOpRun =>
        /\ Len(output[1]) = Len(src)
        /\ \A n \in 1..Len(src) :
              SlideIdentity(output[1][n]) = SlideIdentity(src[n])
        /\ run > 1 => counters = first_counters

\* the second run of the unedited export has finished; the first run wrote
\* boxes and left paragraphs other than the exported presentation had
C30_Witness ==
    /\ NoOpRun /\ run = 2
    /\ updated > 1
    /\ first_output # <<src>>
    /\ first_counters = counters

====
